---- MODULE Spec2Model ----
(***************************************************************************)
(* A model of rdbms-subsetter (src/subsetter.py): the construction of the  *)
(* table model (Db.__init__), target sizing (Db.assign_target), the        *)
(* recursive admission of rows (Db.create_row_in), the buffer (Db.flush)   *)
(* and the scheduler (Db.create_subset_in).                                *)
(*                                                                         *)
(* Conventions.  SQL NULL / Python None is the string "NULL"; the default  *)
(* schema (Python None) is the string "None", which is also what           *)
(* '{}.{}'.format(schema, table) prints for it.  A row is a record from    *)
(* column names to values.  A table key is the pair <<schema, name>>, the  *)
(* key of Db.tables.  An unordered SELECT returns its rows in the order of *)
(* a scan of the table that may start at any row (the scan offset `off`).  *)
(***************************************************************************)
EXTENDS Integers, Sequences, FiniteSets, Bags, TLC

NULL == "NULL"
None == "None"

(***************************************************************************)
(* Bounds of the model.                                                    *)
(***************************************************************************)
\* largest --buffer value tried (0 = unbuffered)
MaxBuffer == 2
\* largest --children value tried
MaxChildren == 2

(***************************************************************************)
(* Names and patterns as character sequences (fnmatch works on characters) *)
(***************************************************************************)
Chars(s) ==
    CASE s = "None"      -> <<"N","o","n","e">>
      [] s = "state"     -> <<"s","t","a","t","e">>
      [] s = "city"      -> <<"c","i","t","y">>
      [] s = "landmark"  -> <<"l","a","n","d","m","a","r","k">>
      [] s = "zeppelins" -> <<"z","e","p","p","e","l","i","n","s">>
      [] s = "zeppos"    -> <<"z","e","p","p","o","s">>
      [] s = "languages" -> <<"l","a","n","g","u","a","g","e","s">>
      [] s = "ward"      -> <<"w","a","r","d">>
      [] s = "office"    -> <<"o","f","f","i","c","e">>
      [] s = "zep*"      -> <<"z","e","p","*">>
      [] s = "*.city"    -> <<"*",".","c","i","t","y">>
      [] s = "c?ty"      -> <<"c","?","t","y">>
      [] s = "l*"        -> <<"l","*">>
      [] s = "*"         -> <<"*">>

\* fnmatch.fnmatch(name, pat) on POSIX, for patterns over literals, * and ?
\* (the whole name must match; * and ? also match the dot)
RECURSIVE Glob(_, _)
Glob(s, p) ==
    IF p = <<>> THEN s = <<>>
    ELSE IF Head(p) = "*"
         THEN Glob(s, Tail(p)) \/ (s # <<>> /\ Glob(Tail(s), p))
    ELSE IF Head(p) = "?"
         THEN s # <<>> /\ Glob(Tail(s), Tail(p))
    ELSE s # <<>> /\ Head(s) = Head(p) /\ Glob(Tail(s), Tail(p))

\* qual_name = '{}.{}'.format(schema, table)
QualName(schema, table) == Chars(schema) \o <<".">> \o Chars(table)

MatchesNameOnly(schema, table, patterns) ==
    \E i \in 1..Len(patterns) : Glob(Chars(table), Chars(patterns[i]))

\* _table_matches_any_pattern(schema, table, patterns)
TableMatchesAnyPattern(schema, table, patterns) ==
    \E i \in 1..Len(patterns) :
        \/ Glob(QualName(schema, table), Chars(patterns[i]))
        \/ Glob(Chars(table), Chars(patterns[i]))

(***************************************************************************)
(* The databases.  Source and target have the same schema; Catalog(fx) is  *)
(* what reflection returns, in meta.sorted_tables order (referred tables   *)
(* before the tables that refer to them).  pk is the declared primary key  *)
(* (<<>> if none), rows the content of the source table in storage order.  *)
(***************************************************************************)
Fk(rs, rt, rcols, ccols) ==
    [referred_schema |-> rs, referred_table |-> rt,
     referred_columns |-> rcols, constrained_columns |-> ccols]

\* the fixture of the repository's tests (src/tests/test_subsetter.py), cut
\* down; state and city are given a declared primary key, which --force needs
GeoCatalog ==
    << [schema |-> None, name |-> "state", cols |-> <<"abbrev">>,
        pk |-> <<"abbrev">>, fks |-> <<>>,
        rows |-> << [abbrev |-> "MN"], [abbrev |-> "OH"] >>],
       [schema |-> None, name |-> "zeppos", cols |-> <<"name", "home_city">>,
        pk |-> <<>>, fks |-> <<>>,
        rows |-> << [name |-> "Zeppo", home_city |-> "NYC"] >>],
       [schema |-> None, name |-> "languages", cols |-> <<"name">>,
        pk |-> <<>>, fks |-> <<>>,
        rows |-> << >>],
       [schema |-> None, name |-> "city", cols |-> <<"name", "state_abbrev">>,
        pk |-> <<"name">>,
        fks |-> << Fk(None, "state", <<"abbrev">>, <<"state_abbrev">>) >>,
        rows |-> << [name |-> "Duluth", state_abbrev |-> "MN"],
                    [name |-> "Dayton", state_abbrev |-> "OH"],
                    [name |-> "Bemidji", state_abbrev |-> "MN"] >>],
       [schema |-> None, name |-> "landmark", cols |-> <<"name", "city">>,
        pk |-> <<>>,
        fks |-> << Fk(None, "city", <<"name">>, <<"city">>) >>,
        rows |-> << [name |-> "LiftBridge", city |-> "Duluth"] >>],
       [schema |-> None, name |-> "zeppelins", cols |-> <<"name", "home_city">>,
        pk |-> <<>>,
        fks |-> << Fk(None, "city", <<"name">>, <<"home_city">>) >>,
        rows |-> << [name |-> "Graf", home_city |-> NULL],
                    [name |-> "Nordstern", home_city |-> NULL] >>] >>

\* a two-column foreign key
WardCatalog ==
    << [schema |-> None, name |-> "ward", cols |-> <<"city", "num">>,
        pk |-> <<"city", "num">>, fks |-> <<>>,
        rows |-> << [city |-> "Duluth", num |-> "1"],
                    [city |-> "Duluth", num |-> "2"] >>],
       [schema |-> None, name |-> "office", cols |-> <<"name", "w_city", "w_num">>,
        pk |-> <<"name">>,
        fks |-> << Fk(None, "ward", <<"city", "num">>, <<"w_city", "w_num">>) >>,
        rows |-> << [name |-> "Annex", w_city |-> "Duluth", w_num |-> "2"],
                    [name |-> "Depot", w_city |-> NULL, w_num |-> NULL] >>] >>

\* two tables without a foreign key between them; the --config file declares
\* zeppos.home_city -> city.name
ZepCatalog ==
    << [schema |-> None, name |-> "city", cols |-> <<"name">>,
        pk |-> <<"name">>, fks |-> <<>>,
        rows |-> << [name |-> "Duluth"], [name |-> "Dayton"] >>],
       [schema |-> None, name |-> "zeppos", cols |-> <<"name", "home_city">>,
        pk |-> <<>>, fks |-> <<>>,
        rows |-> << [name |-> "Zeppo", home_city |-> "NYC"],
                    [name |-> "Harpo", home_city |-> "Duluth"] >>] >>

\* a source whose foreign key was not enforced: landmark Arch names a city
\* that the city table does not hold
OrphanCatalog ==
    << [schema |-> None, name |-> "city", cols |-> <<"name">>,
        pk |-> <<"name">>, fks |-> <<>>,
        rows |-> << [name |-> "Duluth"] >>],
       [schema |-> None, name |-> "landmark", cols |-> <<"name", "city">>,
        pk |-> <<"name">>,
        fks |-> << Fk(None, "city", <<"name">>, <<"city">>) >>,
        rows |-> << [name |-> "LiftBridge", city |-> "Duluth"],
                    [name |-> "Arch", city |-> "StLouis"] >>] >>

\* a database with a table zeppos in two schemas; the --config file declares
\* home_city -> city.name
TwinCatalog ==
    << [schema |-> None, name |-> "city", cols |-> <<"name">>,
        pk |-> <<"name">>, fks |-> <<>>,
        rows |-> << [name |-> "Duluth"] >>],
       [schema |-> None, name |-> "zeppos", cols |-> <<"name", "home_city">>,
        pk |-> <<>>, fks |-> <<>>,
        rows |-> << [name |-> "Zeppo", home_city |-> "Duluth"] >>],
       [schema |-> "schema1", name |-> "zeppos", cols |-> <<"name", "home_city">>,
        pk |-> <<>>, fks |-> <<>>,
        rows |-> << [name |-> "Harpo", home_city |-> "Duluth"] >>] >>

\* a table that references itself: Duluth and Superior name each other,
\* Hibbing names Duluth, Dayton names Bemidji, Bemidji names no city
CycleCatalog ==
    << [schema |-> None, name |-> "city", cols |-> <<"name", "sister">>,
        pk |-> <<"name">>,
        fks |-> << Fk(None, "city", <<"name">>, <<"sister">>) >>,
        rows |-> << [name |-> "Bemidji", sister |-> NULL],
                    [name |-> "Dayton", sister |-> "Bemidji"],
                    [name |-> "Duluth", sister |-> "Superior"],
                    [name |-> "Superior", sister |-> "Duluth"],
                    [name |-> "Hibbing", sister |-> "Duluth"] >>] >>

\* a table of schema1 whose foreign key refers to a table of the default
\* schema
CrossCatalog ==
    << [schema |-> None, name |-> "city", cols |-> <<"name">>,
        pk |-> <<"name">>, fks |-> <<>>,
        rows |-> << [name |-> "Duluth"], [name |-> "Dayton"] >>],
       [schema |-> "schema1", name |-> "office", cols |-> <<"name", "city">>,
        pk |-> <<"name">>,
        fks |-> << Fk(None, "city", <<"name">>, <<"city">>) >>,
        rows |-> << [name |-> "Annex", city |-> "Duluth"],
                    [name |-> "Depot", city |-> "Dayton"] >>] >>

Catalog(fx) ==
    IF fx = "geo" THEN GeoCatalog ELSE IF fx = "ward" THEN WardCatalog
    ELSE IF fx = "zep" THEN ZepCatalog
    ELSE IF fx = "twin" THEN TwinCatalog
    ELSE IF fx = "cross" THEN CrossCatalog
    ELSE IF fx = "cycle" THEN CycleCatalog ELSE OrphanCatalog

Key(d) == <<d.schema, d.name>>

\* every table of either database, whether the model keeps it or not
AllKeys ==
    {Key(GeoCatalog[i]) : i \in 1..Len(GeoCatalog)}
        \cup {Key(WardCatalog[i]) : i \in 1..Len(WardCatalog)}
        \cup {Key(TwinCatalog[i]) : i \in 1..Len(TwinCatalog)}
        \cup {Key(CrossCatalog[i]) : i \in 1..Len(CrossCatalog)}

\* the descriptor of table k in catalog cat (an empty one if it has none)
DescIn(cat, k) ==
    IF \E i \in 1..Len(cat) : Key(cat[i]) = k
    THEN cat[CHOOSE i \in 1..Len(cat) : Key(cat[i]) = k]
    ELSE [schema |-> k[1], name |-> k[2], cols |-> <<>>, pk |-> <<>>,
          fks |-> <<>>, rows |-> <<>>]

Desc(fx, k) == DescIn(Catalog(fx), k)

\* the rows of source table k, in storage order
SourceRows(fx, k) == Desc(fx, k).rows

(***************************************************************************)
(* Arguments (DummyArgs of the tests, argparser of the command line).      *)
(* fraction4 is the fraction in quarters: 1 is 0.25, 4 is 1.0.             *)
(* force_rows is args.force_rows flattened in iteration order, each entry  *)
(* <<table key, pk value>> with the "schema.table" name already split.     *)
(* config is the parsed --config file without its constraints, which are   *)
(* the field constraints.                                                  *)
(***************************************************************************)
Args(fx, tbls, excl, full, force, children, buffer, fraction4) ==
    [fx |-> fx, schema |-> <<>>, tables |-> tbls, exclude_tables |-> excl,
     full_tables |-> full, force_rows |-> force, children |-> children,
     buffer |-> buffer, fraction4 |-> fraction4, constraints |-> <<>>,
     config |-> [tables |-> <<>>, schemas |-> <<>>, full_tables |-> <<>>],
     enforce |-> FALSE]

GeoForce ==
    { <<>>,
      << <<<<None, "city">>, "Duluth">> >>,
      << <<<<None, "state">>, "MN">>, <<<<None, "city">>, "Duluth">> >>,
      << <<<<None, "city">>, "Atlantis">>, <<<<None, "city">>, "Dayton">> >>,
      << <<<<None, "city">>, "Dayton">>, <<<<None, "state">>, "MN">> >>,
      << <<<<None, "city">>, "Dayton">>, <<<<None, "city">>, "Duluth">> >> }

\* the engine on the test fixture, no table filter
EngineArgs ==
    { Args("geo", <<>>, <<>>, full, force, c, b, f) :
        full \in { <<>>, <<"city">>, <<"l*">> }, force \in GeoForce,
        c \in 1..MaxChildren, b \in 0..MaxBuffer, f \in {1, 4} }

\* --table / --exclude-table combinations on the test fixture
FilterArgs ==
    { Args("geo", tbls, excl, <<>>, <<>>, MaxChildren, b, 1) :
        tbls \in { <<>>, <<"state", "city">>, <<"c?ty", "landmark">>, <<"*.city", "state">>,
                   <<"languages">> },
        excl \in { <<>>, <<"zep*">>, <<"city">>, <<"landmark", "zeppelins">>, <<"*.city">>,
                   <<"state">> },
        b \in {0, MaxBuffer} }

\* the two-column foreign key
WardArgs ==
    { [Args("ward", <<>>, <<>>, <<>>, force, MaxChildren, b, f) EXCEPT !.enforce = e] :
        force \in { <<>>, << <<<<None, "office">>, "Annex">> >>,
                    << <<<<None, "office">>, "Depot">> >> },
        b \in 0..MaxBuffer, f \in {0, 1, 4}, e \in BOOLEAN }

\* a --config file with a constraint of zeppos, under the bare or the
\* qualified name of the table
ZepArgs ==
    { [Args("zep", <<>>, <<>>, <<>>, <<>>, MaxChildren, b, f) EXCEPT
          !.constraints = (name :> << Fk(None, "city", <<"name">>, <<"home_city">>) >>)] :
        name \in { <<"zeppos">>, <<None, "zeppos">> },
        b \in 0..MaxBuffer, f \in {1, 4} }

\* --schema schema1 on the database with zeppos in two schemas, the
\* constraint under the bare name, or under each qualified name
TwinArgs ==
    { [Args("twin", <<>>, <<>>, <<>>, <<>>, MaxChildren, b, 4) EXCEPT
          !.schema = <<"schema1">>, !.constraints = c] :
        c \in { (<<"zeppos">> :> << Fk(None, "city", <<"name">>, <<"home_city">>) >>),
                (<<None, "zeppos">> :> << Fk(None, "city", <<"name">>, <<"home_city">>) >>)
                   @@ (<<"schema1", "zeppos">> :>
                          << Fk(None, "city", <<"name">>, <<"home_city">>) >>) },
        b \in {0, MaxBuffer} }

\* --schema schema1 on the database whose foreign key crosses schemas
CrossArgs ==
    { [Args("cross", <<>>, <<>>, <<>>, <<>>, MaxChildren, b, f) EXCEPT
          !.schema = <<"schema1">>, !.enforce = e] :
        b \in {0, MaxBuffer}, f \in {1, 4}, e \in BOOLEAN }

\* runs on the table that references itself
CycleArgs ==
    { Args("cycle", <<>>, <<>>, <<>>, force, MaxChildren, b, f) :
        force \in { <<>>, << <<<<None, "city">>, "Dayton">> >>,
                    << <<<<None, "city">>, "Hibbing">> >> },
        b \in {0, MaxBuffer}, f \in {1, 4} }

\* runs on the source with the orphan row
OrphanArgs ==
    { Args("orphan", <<>>, <<>>, <<>>, force, MaxChildren, b, f) :
        force \in { <<>>, << <<<<None, "landmark">>, "Arch">> >>,
                    << <<<<None, "city">>, "Duluth">> >> },
        b \in 0..MaxBuffer, f \in {1, 4} }

\* a --config file that names tables and full tables
ConfigArgs ==
    { [Args("geo", tbls, <<>>, <<>>, <<>>, MaxChildren, 0, 1) EXCEPT
          !.schema = sch,
          !.config = [tables |-> ct, schemas |-> <<"schema2">>, full_tables |-> cf]] :
        tbls \in { <<>>, <<"state">> }, sch \in { <<>>, <<"schema1">> },
        ct \in { <<"city">>, <<"zeppos">> }, cf \in { <<>>, <<"city">> } }

\* merge_config_args(args): the lists of the config file go after the lists
\* of the command line
merge_config_args(a) ==
    [a EXCEPT !.tables = a.tables \o a.config.tables,
              !.schema = a.schema \o a.config.schemas,
              !.full_tables = a.full_tables \o a.config.full_tables]

VARIABLES
    args,            \* the arguments of the run
    pc,              \* "start", "force", "loop", "done" or "error"
    tables,          \* Db.tables: the keys of the tables of the model, in order
    child_fks,       \* tbl.child_fks of every table
    fi,              \* number of force_rows entries already handled
    required,        \* target.required of every table: <<row, prioritized>> entries
    requested,       \* target.requested of every table
    pending,         \* target.pending of every table: pk tuple -> row
    done,            \* target.done of every table: set of pk tuples
    n_rows,          \* target.n_rows of every table
    n_rows_desired,  \* target.n_rows_desired of every table
    fetch_all,       \* target.fetch_all of every table
    db,              \* the rows stored in each table of the target database
    admitted,        \* per table, the bag of pk tuples admitted (n_rows += 1) in this run
    submitted,       \* per table, the bag of pk tuples handed to an INSERT in this
                     \* run (the one-by-one retry of a failed batch is not counted)
    run,             \* 1 for the first run on the target, 2 for a second one with
                     \* the same arguments, 3 for a second one that forces more
    db0,             \* the rows of the target database when the run started
    plain,           \* the engine state of the same run made with buffer = 0
    log              \* what the last step did, in order (row_added events, queries, ...)

vars == <<args, pc, tables, child_fks, fi, required, requested, pending, done,
          n_rows, n_rows_desired, fetch_all, db, admitted, submitted, run, db0,
          plain, log>>

(***************************************************************************)
(* Db.__init__                                                             *)
(***************************************************************************)
\* schemas = args.schema + [None, ]
Schemas(a) == a.schema \o <<None>>

\* a reflection loop without its second `continue` (a faulty variant)
KeptIgnoringExclude(a, d) ==
    ~(a.tables # <<>> /\ ~TableMatchesAnyPattern(d.schema, d.name, a.tables))

\* the two `continue` tests of the reflection loop
Kept(a, d) ==
    /\ ~(a.tables # <<>> /\ ~TableMatchesAnyPattern(d.schema, d.name, a.tables))
    /\ ~TableMatchesAnyPattern(d.schema, d.name, a.exclude_tables)

\* the tables the foreign keys of the tables S refer to
ReferredFrom(cat, S) ==
    UNION {{<<DescIn(cat, k).fks[i].referred_schema, DescIn(cat, k).fks[i].referred_table>> :
               i \in 1..Len(DescIn(cat, k).fks)} : k \in S}

\* meta.reflect(schema=schema): the tables of the schema and, with them, the
\* tables their foreign keys lead to
RECURSIVE Reflected(_, _)
Reflected(cat, S) ==
    IF ReferredFrom(cat, S) \subseteq S THEN S
    ELSE Reflected(cat, S \cup ReferredFrom(cat, S))

RECURSIVE KeptOfSchema(_, _, _)
KeptOfSchema(a, cat, schema) ==
    IF cat = <<>> THEN <<>>
    ELSE (IF /\ Key(Head(cat)) \in
                   Reflected(Catalog(a.fx),
                             {Key(Catalog(a.fx)[i]) :
                                 i \in {j \in 1..Len(Catalog(a.fx)) :
                                           Catalog(a.fx)[j].schema = schema}})
             /\ Kept(a, Head(cat))
          THEN <<Key(Head(cat))>> ELSE <<>>)
         \o KeptOfSchema(a, Tail(cat), schema)

InSeq(x, s) == \E i \in 1..Len(s) : s[i] = x

\* the keys of more that seq does not hold, in order
RECURSIVE NewKeys(_, _)
NewKeys(seq, more) ==
    IF more = <<>> THEN <<>>
    ELSE (IF InSeq(Head(more), seq) THEN <<>> ELSE <<Head(more)>>)
         \o NewKeys(seq, Tail(more))

\* self.tables after the first loop: schema by schema, sorted_tables order; a
\* key that is assigned again keeps its place in the OrderedDict
RECURSIVE DbTablesFrom(_, _, _)
DbTablesFrom(a, schemas, seq) ==
    IF schemas = <<>> THEN seq
    ELSE DbTablesFrom(a, Tail(schemas),
                      seq \o NewKeys(seq, KeptOfSchema(a, Catalog(a.fx), Head(schemas))))

DbTables(a) == DbTablesFrom(a, Schemas(a), <<>>)

\* tbl.pk: the declared key, or every column when there is none
PkOf(d) == IF d.pk # <<>> THEN d.pk ELSE d.cols

Pk(fx, k) == PkOf(Desc(fx, k))

\* tbl.constraints: the configured list under the qualified name, else under
\* the bare name, else []
Constraints(a, k) ==
    IF k \in DOMAIN a.constraints THEN a.constraints[k]
    ELSE IF <<k[2]>> \in DOMAIN a.constraints THEN a.constraints[<<k[2]>>]
    ELSE <<>>

\* tbl.fks + constraints
Edges(a, k) == Desc(a.fx, k).fks \o Constraints(a, k)

Referred(fk) == <<fk.referred_schema, fk.referred_table>>

\* fk with fk['constrained_schema'], fk['constrained_table'] set
Mirror(fk, k) ==
    [referred_schema |-> fk.referred_schema, referred_table |-> fk.referred_table,
     referred_columns |-> fk.referred_columns,
     constrained_columns |-> fk.constrained_columns,
     constrained_schema |-> k[1], constrained_table |-> k[2]]

RECURSIVE MirrorsOf(_, _)
MirrorsOf(edges, k) ==
    IF edges = <<>> THEN <<>>
    ELSE <<Mirror(Head(edges), k)>> \o MirrorsOf(Tail(edges), k)

\* table k took its constraints from the entry under its bare name (line
\* 306): the list, and each dict in it, is the one object that every table of
\* that name in another schema takes too
SharesList(a, k) == k \notin DOMAIN a.constraints /\ <<k[2]>> \in DOMAIN a.constraints

\* the table whose schema and name the dicts of k's constraint list hold once
\* the second loop is over: the last table of the model that wrote them
LastWriter(a, all, k) ==
    IF SharesList(a, k)
    THEN all[CHOOSE i \in 1..Len(all) :
                /\ all[i][2] = k[2] /\ SharesList(a, all[i])
                /\ \A j \in 1..Len(all) :
                      (all[j][2] = k[2] /\ SharesList(a, all[j])) => j <= i]
    ELSE k

\* the edges of the tables tbls as child_fks holds them when the second loop
\* over the tables all is over: a reflected foreign key is a fresh dict, a
\* configured constraint is the dict of the config
RECURSIVE AllMirrorsFrom(_, _, _)
AllMirrorsFrom(a, all, tbls) ==
    IF tbls = <<>> THEN <<>>
    ELSE MirrorsOf(Desc(a.fx, Head(tbls)).fks, Head(tbls))
         \o MirrorsOf(Constraints(a, Head(tbls)), LastWriter(a, all, Head(tbls)))
         \o AllMirrorsFrom(a, all, Tail(tbls))

\* every edge of every table of the model, in the order of the second loop
AllMirrors(a, tbls) == AllMirrorsFrom(a, tbls, tbls)

\* a second loop that would skip edges to tables it does not know (a faulty
\* variant)
NeverDangling(a, tbls) == FALSE

\* self.tables[(fk['referred_schema'], fk['referred_table'])] raises KeyError
Dangling(a, tbls) ==
    \E i \in 1..Len(AllMirrors(a, tbls)) :
        ~InSeq(Referred(AllMirrors(a, tbls)[i]), tbls)

\* child_fks of table k once the second loop has run
ChildFksOf(a, tbls, k) ==
    SelectSeq(AllMirrors(a, tbls), LAMBDA m : Referred(m) = k)

(***************************************************************************)
(* Db.assign_target                                                        *)
(***************************************************************************)
\* tbl.n_rows of a source table (find_n_rows: the fast estimate is not
\* available for the test driver, so it is SELECT COUNT(*))
SourceNRows(fx, k) == Len(SourceRows(fx, k))

IsFullTable(a, k) == TableMatchesAnyPattern(k[1], k[2], a.full_tables)

\* int(tbl.n_rows * fraction) without its `or 1` (a faulty variant)
LinearDesiredOrZero(n, fraction4) == (n * fraction4) \div 4

\* int(tbl.n_rows * fraction) or 1, the fraction in quarters
LinearDesired(n, fraction4) ==
    IF (n * fraction4) \div 4 = 0 THEN 1 ELSE (n * fraction4) \div 4

NRowsDesired(a, k) ==
    IF IsFullTable(a, k) THEN SourceNRows(a.fx, k)
    ELSE IF SourceNRows(a.fx, k) # 0 THEN LinearDesired(SourceNRows(a.fx, k), a.fraction4)
    ELSE 0

(***************************************************************************)
(* The engine state threaded through one step: the target-side fields of   *)
(* every table, the target database, the history, and the exception, if    *)
(* any, that is propagating ("none" if none).                              *)
(***************************************************************************)
Cur ==
    [required |-> required, requested |-> requested, pending |-> pending,
     done |-> done, n_rows |-> n_rows, db |-> db, admitted |-> admitted,
     submitted |-> submitted, log |-> <<>>, err |-> "none", stack |-> {},
     buffer |-> args.buffer]

\* the same for the run made with buffer = 0
PlainCur == [plain EXCEPT !.log = <<>>]

Note(st, e) == [st EXCEPT !.log = Append(@, e)]

Raise(st, what) == [st EXCEPT !.err = what]

\* the scan of a table that starts `off` rows in
Scan(rows, off) ==
    [i \in 1..Len(rows) |-> rows[((i - 1 + off) % Len(rows)) + 1]]

\* pks = tuple((source_row[key] for key in target.pk))
Project(row, cols) == [i \in 1..Len(cols) |-> row[cols[i]]]

RowPk(row, t) == Project(row, Pk(args.fx, t))

\* a row_exists that forgets the buffered rows (a faulty variant)
RowExistsDoneOnly(st, t, pks) == pks \in st.done[t]

\* row_exists = pks in target.pending or pks in target.done
RowExists(st, t, pks) == pks \in DOMAIN st.pending[t] \/ pks \in st.done[t]

\* a zip loop that issues its query even when every column is NULL (a faulty
\* variant)
FirstNonNullOrAll(fk, row) ==
    LET nn == {i \in 1..Len(fk.constrained_columns) :
                  row[fk.constrained_columns[i]] # NULL}
    IN  IF nn = {} THEN Len(fk.constrained_columns)
        ELSE CHOOSE i \in nn : \A j \in nn : i <= j

\* the column pairs the parent query filters on: the zip loop stops (break)
\* at the first constrained column that is not NULL; 0 if all are NULL
FirstNonNull(fk, row) ==
    LET nn == {i \in 1..Len(fk.constrained_columns) :
                  row[fk.constrained_columns[i]] # NULL}
    IN  IF nn = {} THEN 0 ELSE CHOOSE i \in nn : \A j \in nn : i <= j

\* the WHERE clause of the parent query (== None is rendered IS NULL)
ParentWhere(fk, row, parent) ==
    \A i \in 1..FirstNonNull(fk, row) :
        parent[fk.referred_columns[i]] = row[fk.constrained_columns[i]]

\* the WHERE clause of the child query: every column pair
ChildWhere(cfk, row, child) ==
    \A i \in 1..Len(cfk.constrained_columns) :
        child[cfk.constrained_columns[i]] = row[cfk.referred_columns[i]]

Min(x, y) == IF x <= y THEN x ELSE y

\* a query without its LIMIT (a faulty variant)
LimitIgnored(rows, n) == rows

\* slct.limit(n)
Limit(rows, n) == SubSeq(rows, 1, Min(n, Len(rows)))

\* the target database refuses an INSERT of a row with this key: the table
\* has a declared primary key and already stores a row with it
Rejected(st, t, pk) ==
    /\ Desc(args.fx, t).pk # <<>>
    /\ \E r \in st.db[t] : RowPk(r, t) = pk

\* the target database enforces its foreign keys and the row refers, with no
\* NULL in the constrained columns of a reflected foreign key, to a row that
\* the referred table does not store
Unparented(st, t, values) ==
    /\ args.enforce
    /\ \E i \in 1..Len(Desc(args.fx, t).fks) :
          \E fk \in {Desc(args.fx, t).fks[i]} :
             /\ \A j \in 1..Len(fk.constrained_columns) :
                   values[fk.constrained_columns[j]] # NULL
             /\ ~\E p \in st.db[<<fk.referred_schema, fk.referred_table>>] :
                   \A j \in 1..Len(fk.constrained_columns) :
                      p[fk.referred_columns[j]] = values[fk.constrained_columns[j]]

\* conn.execute(table.insert(), values) raises
Refused(st, t, pk, values) == Rejected(st, t, pk) \/ Unparented(st, t, values)

\* an insert_one without its done.add (a faulty variant)
InsertOneUnrecorded(st, t, pk, values) ==
    IF Refused(st, t, pk, values)
    THEN Raise(Note([st EXCEPT !.submitted[t] = @ (+) SetToBag({pk})],
                    [ev |-> "insert", table |-> t, pks |-> {pk}, rejected |-> {pk}]),
               "IntegrityError")
    ELSE Note([st EXCEPT !.db[t] = @ \cup {values},
                         !.submitted[t] = @ (+) SetToBag({pk})],
              [ev |-> "insert", table |-> t, pks |-> {pk}, rejected |-> {}])

\* Db.insert_one: conn.execute raises before done.add if the row is refused
insert_one(st, t, pk, values) ==
    IF Refused(st, t, pk, values)
    THEN Raise(Note([st EXCEPT !.submitted[t] = @ (+) SetToBag({pk})],
                    [ev |-> "insert", table |-> t, pks |-> {pk}, rejected |-> {pk}]),
               "IntegrityError")
    ELSE Note([st EXCEPT !.db[t] = @ \cup {values}, !.done[t] = @ \cup {pk},
                         !.submitted[t] = @ (+) SetToBag({pk})],
              [ev |-> "insert", table |-> t, pks |-> {pk}, rejected |-> {}])

\* the signal sent before the row is inserted or buffered (a faulty variant)
CommitSignalFirst(st, row, t, prioritized) ==
    IF st.err # "none" THEN st
    ELSE LET pks == RowPk(row, t)
             s1 == Note([st EXCEPT !.n_rows[t] = @ + 1,
                                   !.admitted[t] = @ (+) SetToBag({pks})],
                        [ev |-> "row_added", table |-> t, pk |-> pks,
                         prioritized |-> prioritized])
         IN  IF st.buffer = 0 THEN insert_one(s1, t, pks, row)
             ELSE [s1 EXCEPT !.pending[t] = (pks :> row) @@ @]

\* every admitted row buffered, whatever args.buffer (a faulty variant)
CommitAlwaysBuffers(st, row, t, prioritized) ==
    IF st.err # "none" THEN st
    ELSE LET pks == RowPk(row, t)
             s1 == [st EXCEPT !.n_rows[t] = @ + 1,
                              !.admitted[t] = @ (+) SetToBag({pks}),
                              !.pending[t] = (pks :> row) @@ @]
         IN  Note(s1, [ev |-> "row_added", table |-> t, pk |-> pks,
                       prioritized |-> prioritized])

\* lines 412-423: count the row, insert or buffer it, send row_added
Commit(st, row, t, prioritized) ==
    IF st.err # "none" THEN st
    ELSE LET pks == RowPk(row, t)
             s1 == [st EXCEPT !.n_rows[t] = @ + 1,
                              !.admitted[t] = @ (+) SetToBag({pks})]
             s2 == IF st.buffer = 0 THEN insert_one(s1, t, pks, row)
                   ELSE [s1 EXCEPT !.pending[t] = (pks :> row) @@ @]
         IN  IF s2.err # "none" THEN s2
             ELSE Note(s2, [ev |-> "row_added", table |-> t, pk |-> pks,
                            prioritized |-> prioritized])

RECURSIVE EnqueueAll(_, _)
EnqueueAll(rows, prioritized) ==
    IF rows = <<>> THEN <<>>
    ELSE <<<<Head(rows), prioritized>>>> \o EnqueueAll(Tail(rows), prioritized)

\* every result appended at the tail (a faulty variant)
EnqueueAtTail(q, res) == q \o EnqueueAll(res, FALSE)

\* lines 437-441 for a non-empty result: appendleft for n = 0, append after
EnqueueRequested(q, res) ==
    <<<<Head(res), FALSE>>>> \o q \o EnqueueAll(Tail(res), FALSE)

\* lines 425-441: the candidates of each child edge go to the child's queues
RECURSIVE ChildrenLoop(_, _, _, _, _, _)
ChildrenLoop(st, row, t, prioritized, off, cfks) ==
    IF st.err # "none" \/ cfks = <<>> THEN st
    ELSE LET cfk == Head(cfks)
             child == <<cfk.constrained_schema, cfk.constrained_table>>
             found == SelectSeq(Scan(SourceRows(args.fx, child), off),
                                LAMBDA r : ChildWhere(cfk, row, r))
             res == IF prioritized THEN found ELSE Limit(found, args.children)
             s1 == IF prioritized
                   THEN [st EXCEPT !.required[child] = @ \o EnqueueAll(res, TRUE)]
                   ELSE IF res = <<>> THEN st
                   ELSE [st EXCEPT !.requested[child] = EnqueueRequested(@, res)]
             s2 == Note(s1, [ev |-> "enqueue", table |-> child, parent |-> t,
                             parent_pk |-> RowPk(row, t),
                             queue |-> IF prioritized THEN "required" ELSE "requested",
                             prioritized |-> prioritized, n |-> Len(res),
                             matching |-> Len(found)])
         IN  IF ~InSeq(child, tables) THEN Raise(st, "KeyError")
             ELSE ChildrenLoop(s2, row, t, prioritized, off, Tail(cfks))

\* a configured constraint handled as a foreign key (a faulty variant)
MissingParentRaises(st, real) == Raise(st, "TypeError")

\* a missing parent that is passed over whatever the edge (a faulty variant)
MissingParentSkipped(st, real) == st

\* the source has no row for the edge: create_row_in(None, ...) raises for a
\* foreign key (line 386); a configured constraint is skipped (line 408)
MissingParent(st, real) == IF real THEN Raise(st, "TypeError") ELSE st

\* Db.create_row_in, and its loops over target.fks (real = TRUE, lines 370-387)
\* and target.constraints (real = FALSE, lines 390-410)
RECURSIVE create_row_in(_, _, _, _, _)
RECURSIVE EdgeLoop(_, _, _, _, _, _)
EdgeLoop(st, row, t, off, edges, real) ==
    IF st.err # "none" \/ edges = <<>> THEN st
    ELSE LET fk == Head(edges)
             parent == Referred(fk)
             s1 == Note(st, [ev |-> "lookup", table |-> t, pk |-> RowPk(row, t),
                             referred |-> parent])
             in_target == \E r \in s1.db[parent] : ParentWhere(fk, row, r)
             in_source == SelectSeq(Scan(SourceRows(args.fx, parent), off),
                                    LAMBDA r : ParentWhere(fk, row, r))
         IN  IF ~InSeq(parent, tables) THEN Raise(st, "KeyError")
             ELSE IF FirstNonNull(fk, row) = 0
                  THEN EdgeLoop(st, row, t, off, Tail(edges), real)
             ELSE IF in_target
                  THEN EdgeLoop(s1, row, t, off, Tail(edges), real)
             ELSE IF in_source = <<>>
                  THEN EdgeLoop(MissingParent(s1, real), row, t, off, Tail(edges), real)
             ELSE EdgeLoop(create_row_in(s1, Head(in_source), parent, FALSE, off),
                           row, t, off, Tail(edges), real)

\* a create_row_in that never returns early (a faulty variant)
EarlyReturnNever(row_exists, prioritized) == FALSE

\* a create_row_in that returns whenever the row exists (a faulty variant)
EarlyReturnIfExists(row_exists, prioritized) == row_exists

\* if row_exists and not prioritized: return (lines 365-366)
EarlyReturn(row_exists, prioritized) == row_exists /\ ~prioritized

\* a create_row_in that notices the row it is admitting already and returns
\* (a faulty variant)
ReentryReturns(st, t, pks) == st

\* create_row_in is entered for a row that an enclosing call is looking up
\* the parents of, with the row still absent from pending and done: the inner
\* call is in the situation of the outer one, and lines 370-387 recurse
\* without bound; the interpreter ends that with a RecursionError
OnReentry(st, t, pks) ==
    Raise(Note(st, [ev |-> "recursion", table |-> t, pk |-> pks]), "RecursionError")

\* st.stack holds the rows of the create_row_in calls that have not returned
create_row_in(st, source_row, t, prioritized, off) ==
    IF st.err # "none" THEN st
    ELSE LET pks == RowPk(source_row, t)
             row_exists == RowExists(st, t, pks)
             s0 == Note([st EXCEPT !.stack = @ \cup {<<t, pks>>}],
                        [ev |-> "call", table |-> t, pk |-> pks,
                         prioritized |-> prioritized, row_exists |-> row_exists,
                         depth |-> Cardinality(st.stack) + 1])
             s1 == EdgeLoop(s0, source_row, t, off, Desc(args.fx, t).fks, TRUE)
             s2 == EdgeLoop(s1, source_row, t, off, Constraints(args, t), FALSE)
             s3 == IF row_exists THEN s0 ELSE Commit(s2, source_row, t, prioritized)
             out == IF EarlyReturn(row_exists, prioritized) THEN s0
                    ELSE ChildrenLoop(s3, source_row, t, prioritized, off, child_fks[t])
         IN  IF ~row_exists /\ <<t, pks>> \in st.stack THEN OnReentry(s0, t, pks)
             ELSE IF out.err # "none" THEN out
             ELSE [out EXCEPT !.stack = st.stack]

\* a count that looks at the first table only (a faulty variant)
PendingOfFirst(st, tbls) ==
    IF tbls = <<>> THEN 0 ELSE Cardinality(DOMAIN st.pending[Head(tbls)])

\* Db.pending: the number of buffered rows over all tables
RECURSIVE PendingCount(_, _)
PendingCount(st, tbls) ==
    IF tbls = <<>> THEN 0
    ELSE Cardinality(DOMAIN st.pending[Head(tbls)]) + PendingCount(st, Tail(tbls))

\* a fallback that gives up at the failed batch (a faulty variant)
insert_none(st, t, keys) ==
    Note(st, [ev |-> "retry", table |-> t, pks |-> {}, rejected |-> {}])

\* lines 465-471: the rows of a failed batch, one INSERT each; a refused row
\* is logged and skipped
insert_each(st, t, keys) ==
    Note([st EXCEPT !.db[t] = @ \cup {st.pending[t][k] :
                                         k \in {x \in keys : ~Refused(st, t, x, st.pending[t][x])}}],
         [ev |-> "retry", table |-> t, pks |-> keys,
          rejected |-> {x \in keys : Refused(st, t, x, st.pending[t][x])}])

\* the batch INSERT of one table (line 458): all its rows, or none of them
\* and the fallback
insert_batch(st, t, keys) ==
    IF \E k \in keys : Refused(st, t, k, st.pending[t][k])
    THEN insert_each(Note([st EXCEPT !.submitted[t] = @ (+) SetToBag(keys)],
                          [ev |-> "insert", table |-> t, pks |-> keys,
                           rejected |-> keys]),
                     t, keys)
    ELSE Note([st EXCEPT !.db[t] = @ \cup {st.pending[t][k] : k \in keys},
                         !.submitted[t] = @ (+) SetToBag(keys)],
              [ev |-> "insert", table |-> t, pks |-> keys, rejected |-> {}])

\* Db.flush, table by table in the order of Db.tables
\* a flush that forgets to record the keys in done (a faulty variant)
RECURSIVE FlushKeepsDone(_, _)
FlushKeepsDone(st, tbls) ==
    IF tbls = <<>> THEN st
    ELSE LET t == Head(tbls)
             keys == DOMAIN st.pending[t]
             s1 == insert_batch(st, t, keys)
             s2 == [s1 EXCEPT !.pending[t] = <<>>]
         IN  FlushKeepsDone(IF keys = {} THEN st ELSE s2, Tail(tbls))

RECURSIVE flush(_, _)
flush(st, tbls) ==
    IF tbls = <<>> THEN st
    ELSE LET t == Head(tbls)
             keys == DOMAIN st.pending[t]
             s1 == insert_batch(st, t, keys)
             s2 == [s1 EXCEPT !.done[t] = @ \cup keys, !.pending[t] = <<>>]
         IN  flush(IF keys = {} THEN st ELSE s2, Tail(tbls))

(***************************************************************************)
(* TableHelper.completeness_score.  A score is the exact fraction num/den  *)
(* of millionths; x ** 0.33 is tabulated to six decimals.  (Python's       *)
(* floats differ from this only in the last bit, on ties between tables    *)
(* that both hold three rows and a non-empty required queue.)              *)
(***************************************************************************)
\* round(((n / d) ** 0.33) * 10^6) for n in 0..7, d in 1..5
Pow033(n, d) ==
    << <<0, 1000000, 1257013, 1436978, 1580083, 1700827, 1806300, 1900563>>,
       <<0,  795536, 1000000, 1143168, 1257013, 1353070, 1436978, 1511967>>,
       <<0,  695905,  874762, 1000000, 1099587, 1183614, 1257013, 1322612>>,
       <<0,  632878,  795536,  909432, 1000000, 1076416, 1143168, 1202825>>,
       <<0,  587949,  739060,  844870,  929009, 1000000, 1062013, 1117435>> >>[d][n + 1]

Or1(x) == IF x = 0 THEN 1 ELSE x

ScoreOf(is_fetch_all, n_requested, n_required, n, desired) ==
    IF is_fetch_all /\ n < desired
    THEN [num |-> (1 + Or1(n) - Or1(desired)) * 1000000, den |-> 1]
    ELSE [num |-> (0 - n_requested * 1000000) - n_required * 1000000 * Or1(n)
                  + (IF n_required = 0 THEN Pow033(n, Or1(desired)) * Or1(n) ELSE 0),
          den |-> Or1(n)]

completeness_score(t) ==
    ScoreOf(fetch_all[t], Len(requested[t]), Len(required[t]), n_rows[t],
            n_rows_desired[t])

ScoreLess(x, y) == x.num * y.den < y.num * x.den

\* completeness_score() > 0.97
\* a loop that wants every score above 1 (a faulty variant)
AboveOne(x) == x.num > 1000000 * x.den

AboveThreshold(x) == x.num > 970000 * x.den

\* the tables the scheduler may pick: those whose source has rows
Candidates == {i \in 1..Len(tables) : SourceNRows(args.fx, tables[i]) # 0}

\* the first table whose source has rows, whatever its score (a faulty
\* variant)
FirstCandidate == tables[CHOOSE i \in Candidates : \A j \in Candidates : i <= j]

\* sorted(...) is stable: the first table, in Db.tables order, of least score
Target ==
    tables[CHOOSE i \in Candidates :
              \A j \in Candidates :
                  /\ ~ScoreLess(completeness_score(tables[j]), completeness_score(tables[i]))
                  /\ (j < i => ScoreLess(completeness_score(tables[i]),
                                         completeness_score(tables[j])))]

\* the loop ends: no table left to pop, or the least score is above 0.97
LoopEnds ==
    IF Candidates = {} THEN TRUE ELSE AboveThreshold(completeness_score(Target))

\* the same decisions, taken by the run made with buffer = 0
PlainScore(t) ==
    ScoreOf(fetch_all[t], Len(plain.requested[t]), Len(plain.required[t]),
            plain.n_rows[t], n_rows_desired[t])

PlainTarget ==
    tables[CHOOSE i \in Candidates :
              \A j \in Candidates :
                  /\ ~ScoreLess(PlainScore(tables[j]), PlainScore(tables[i]))
                  /\ (j < i => ScoreLess(PlainScore(tables[i]), PlainScore(tables[j])))]

PlainLoopEnds ==
    IF Candidates = {} THEN TRUE ELSE AboveThreshold(PlainScore(PlainTarget))

\* a next_row that serves the requested queue first (a faulty variant)
RequestedFirst(t) ==
    IF requested[t] # <<>>
    THEN {[row |-> Head(requested[t])[1], prioritized |-> Head(requested[t])[2],
           from |-> "requested"]}
    ELSE IF required[t] # <<>>
    THEN {[row |-> Head(required[t])[1], prioritized |-> Head(required[t])[2],
           from |-> "required"]}
    ELSE {[row |-> SourceRows(args.fx, t)[i], prioritized |-> FALSE, from |-> "sample"] :
             i \in 1..Len(SourceRows(args.fx, t))}

\* TableHelper.next_row: what it may return and where it takes it from.
\* random_rows draws the rows in random order, so the sample is any row.
NextRowChoices(t) ==
    IF required[t] # <<>>
    THEN {[row |-> Head(required[t])[1], prioritized |-> Head(required[t])[2],
           from |-> "required"]}
    ELSE IF requested[t] # <<>>
    THEN {[row |-> Head(requested[t])[1], prioritized |-> Head(requested[t])[2],
           from |-> "requested"]}
    ELSE {[row |-> SourceRows(args.fx, t)[i], prioritized |-> FALSE, from |-> "sample"] :
             i \in 1..Len(SourceRows(args.fx, t))}

\* the engine state once next_row has popped its entry
Popped(st, t, c) ==
    IF c.from = "required" THEN [st EXCEPT !.required[t] = Tail(@)]
    ELSE IF c.from = "requested" THEN [st EXCEPT !.requested[t] = Tail(@)]
    ELSE st

\* where a scan of a table may start
ScanOffsets ==
    {o \in 0..3 : \E k \in AllKeys : o < Len(SourceRows(args.fx, k))}

\* TableHelper.by_pk: the rows whose first primary-key column equals pk
by_pk(t, pk, off) ==
    SelectSeq(Scan(SourceRows(args.fx, t), off),
              LAMBDA r : r[Desc(args.fx, t).pk[1]] = pk)

(***************************************************************************)
(* The run: generate() up to assign_target, then create_subset_in.         *)
(***************************************************************************)
Empty(val) == [k \in AllKeys |-> val]

Init ==
    /\ args \in EngineArgs \cup FilterArgs \cup WardArgs \cup ConfigArgs
                \cup ZepArgs \cup OrphanArgs \cup TwinArgs \cup CycleArgs
                \cup CrossArgs
    /\ pc = "start"
    /\ tables = <<>>
    /\ child_fks = Empty(<<>>)
    /\ fi = 0
    /\ required = Empty(<<>>)
    /\ requested = Empty(<<>>)
    /\ pending = Empty(<<>>)
    /\ done = Empty({})
    /\ n_rows = Empty(0)
    /\ n_rows_desired = Empty(0)
    /\ fetch_all = Empty(FALSE)
    /\ db = Empty({})
    /\ admitted = Empty(EmptyBag)
    /\ submitted = Empty(EmptyBag)
    /\ run = 1
    /\ db0 = Empty({})
    /\ plain = [required |-> Empty(<<>>), requested |-> Empty(<<>>),
                pending |-> Empty(<<>>), done |-> Empty({}), n_rows |-> Empty(0),
                db |-> Empty({}), admitted |-> Empty(EmptyBag),
                submitted |-> Empty(EmptyBag), log |-> <<>>, err |-> "none", stack |-> {},
                buffer |-> 0]
    /\ log = <<>>

\* the step's engine state becomes the state
Becomes(st) ==
    /\ required' = st.required
    /\ requested' = st.requested
    /\ pending' = st.pending
    /\ done' = st.done
    /\ n_rows' = st.n_rows
    /\ db' = st.db
    /\ admitted' = st.admitted
    /\ submitted' = st.submitted
    /\ log' = st.log

\* Db(source), Db(dest), source.assign_target(dest)
Setup ==
    /\ pc = "start"
    /\ \E tbls \in {DbTables(args)} :
       /\ tables' = tbls
       /\ IF Dangling(args, tbls)
          THEN /\ pc' = "error"
               /\ UNCHANGED <<child_fks, n_rows_desired, fetch_all>>
          ELSE /\ pc' = IF args.force_rows = <<>> THEN "loop" ELSE "force"
               /\ child_fks' = [k \in AllKeys |-> ChildFksOf(args, tbls, k)]
               /\ n_rows_desired' =
                     [k \in AllKeys |-> IF InSeq(k, tbls)
                                        THEN NRowsDesired(args, k) ELSE 0]
               /\ fetch_all' =
                     [k \in AllKeys |-> InSeq(k, tbls) /\ IsFullTable(args, k)]
    /\ n_rows' = [k \in AllKeys |-> Cardinality(db[k])]
    /\ plain' = [plain EXCEPT !.n_rows = [k \in AllKeys |-> Cardinality(plain.db[k])]]
    /\ UNCHANGED <<args, fi, required, requested, pending, done, db, admitted,
                   submitted, run, db0, log>>

\* the body of the force loop for one pk of one table
force_one(st, t, pk, off) ==
    IF st.err # "none" THEN st
    ELSE IF ~InSeq(t, tables) THEN Raise(st, "KeyError")
    ELSE IF Desc(args.fx, t).pk = <<>> THEN Raise(st, "IndexError")
    ELSE IF by_pk(t, pk, off) = <<>>
         THEN Note(st, [ev |-> "warn", table |-> t, pk |-> pk])
    ELSE create_row_in(st, Head(by_pk(t, pk, off)), t, TRUE, off)

\* the iteration of the run made with buffer = 0, on the same table and the
\* same row; "diverged" if that run would not take this table or this entry
PlainIterate(t, c, off) ==
    IF plain.err # "none" THEN PlainCur
    ELSE IF PlainLoopEnds THEN Raise(PlainCur, "diverged")
    ELSE IF PlainTarget # t THEN Raise(PlainCur, "diverged")
    ELSE IF (c.from = "required") # (plain.required[t] # <<>>)
         THEN Raise(PlainCur, "diverged")
    ELSE IF c.from = "required" /\ Head(plain.required[t]) # <<c.row, c.prioritized>>
         THEN Raise(PlainCur, "diverged")
    ELSE IF c.from # "required" /\ ((c.from = "requested") # (plain.requested[t] # <<>>))
         THEN Raise(PlainCur, "diverged")
    ELSE IF c.from = "requested" /\ Head(plain.requested[t]) # <<c.row, c.prioritized>>
         THEN Raise(PlainCur, "diverged")
    ELSE create_row_in(Note(Popped(PlainCur, t, c),
                            [ev |-> "next_row", table |-> t, from |-> c.from,
                             prioritized |-> c.prioritized]),
                       c.row, t, c.prioritized, off)

\* one entry of the force loop of create_subset_in (lines 477-492)
ForceRow ==
    /\ pc = "force"
    /\ \E off \in ScanOffsets :
       \E t \in {args.force_rows[fi + 1][1]}, pk \in {args.force_rows[fi + 1][2]} :
       \E st \in {force_one(Cur, t, pk, off)} :
          /\ Becomes(st)
          /\ plain' = force_one(PlainCur, t, pk, off)
          /\ pc' = IF st.err # "none" THEN "error"
                   ELSE IF fi + 1 = Len(args.force_rows) THEN "loop" ELSE "force"
    /\ fi' = fi + 1
    /\ UNCHANGED <<args, tables, child_fks, n_rows_desired, fetch_all, run, db0>>

\* one iteration of the while loop of create_subset_in (lines 494-519)
Iterate ==
    /\ pc = "loop"
    /\ ~LoopEnds
    /\ \E t \in {Target} :
       \E c \in NextRowChoices(t), off \in ScanOffsets :
       \E s1 \in {Note(Popped(Cur, t, c),
                       [ev |-> "next_row", table |-> t, from |-> c.from,
                        prioritized |-> c.prioritized])} :
       \E s2 \in {create_row_in(s1, c.row, t, c.prioritized, off)} :
       \E s3 \in {IF s2.err = "none" /\ PendingCount(s2, tables) > args.buffer
                     /\ args.buffer > 0
                  THEN flush(s2, tables) ELSE s2} :
          /\ Becomes(s3)
          /\ plain' = PlainIterate(t, c, off)
          /\ pc' = IF s3.err # "none" THEN "error" ELSE "loop"
    /\ UNCHANGED <<args, tables, child_fks, fi, n_rows_desired, fetch_all, run, db0>>

\* a create_subset_in that returns without its last flush (a faulty variant)
LastFlushOmitted(st) == st

\* if self.args.buffer > 0: target_db.flush()
LastFlush(st) == IF args.buffer > 0 THEN flush(st, tables) ELSE st

\* the loop breaks; the last flush (lines 521-522)
Finish ==
    /\ pc = "loop"
    /\ LoopEnds
    /\ \E st \in {LastFlush(Cur)} : Becomes(st)
    /\ plain' = IF PlainLoopEnds \/ plain.err # "none" THEN PlainCur
                ELSE Raise(PlainCur, "diverged")
    /\ pc' = "done"
    /\ UNCHANGED <<args, tables, child_fks, fi, n_rows_desired, fetch_all, run, db0>>

\* the program is started again, with the same arguments, on the target the
\* first run left: every Db and table object is built anew
Rerun ==
    /\ pc = "done"
    /\ run = 1
    /\ run' = 2
    /\ db0' = db
    /\ pc' = "start"
    /\ tables' = <<>>
    /\ child_fks' = Empty(<<>>)
    /\ fi' = 0
    /\ required' = Empty(<<>>)
    /\ requested' = Empty(<<>>)
    /\ pending' = Empty(<<>>)
    /\ done' = Empty({})
    /\ n_rows' = Empty(0)
    /\ n_rows_desired' = Empty(0)
    /\ fetch_all' = Empty(FALSE)
    /\ admitted' = Empty(EmptyBag)
    /\ submitted' = Empty(EmptyBag)
    /\ log' = <<>>
    /\ plain' = [required |-> Empty(<<>>), requested |-> Empty(<<>>),
                 pending |-> Empty(<<>>), done |-> Empty({}), n_rows |-> Empty(0),
                 db |-> Empty({}), admitted |-> Empty(EmptyBag),
                 submitted |-> Empty(EmptyBag), log |-> <<>>, err |-> "off", stack |-> {},
                 buffer |-> 0]
    /\ UNCHANGED <<args, db>>

\* the program is started again on the target the first run left, this time
\* forcing a state too: every Db and table object is built anew
RerunForcing ==
    /\ pc = "done"
    /\ run = 1
    /\ args.fx = "geo"
    /\ args.buffer > 0
    /\ args.force_rows = << <<<<None, "city">>, "Duluth">> >>
    /\ args' = [args EXCEPT !.force_rows =
                    << <<<<None, "state">>, "MN">>, <<<<None, "city">>, "Duluth">> >>]
    /\ run' = 3
    /\ db0' = db
    /\ pc' = "start"
    /\ tables' = <<>>
    /\ child_fks' = Empty(<<>>)
    /\ fi' = 0
    /\ required' = Empty(<<>>)
    /\ requested' = Empty(<<>>)
    /\ pending' = Empty(<<>>)
    /\ done' = Empty({})
    /\ n_rows' = Empty(0)
    /\ n_rows_desired' = Empty(0)
    /\ fetch_all' = Empty(FALSE)
    /\ admitted' = Empty(EmptyBag)
    /\ submitted' = Empty(EmptyBag)
    /\ log' = <<>>
    /\ plain' = [required |-> Empty(<<>>), requested |-> Empty(<<>>),
                 pending |-> Empty(<<>>), done |-> Empty({}), n_rows |-> Empty(0),
                 db |-> Empty({}), admitted |-> Empty(EmptyBag),
                 submitted |-> Empty(EmptyBag), log |-> <<>>, err |-> "off", stack |-> {},
                 buffer |-> 0]
    /\ UNCHANGED db

Next == Setup \/ ForceRow \/ Iterate \/ Finish \/ Rerun \/ RerunForcing

Spec == Init /\ [][Next]_vars

\* an iteration that admits a row or takes one from a queue
FreshIterate ==
    Iterate /\ <<n_rows, required, requested, pc>>' # <<n_rows, required, requested, pc>>

\* ENABLED ForceRow, ENABLED Iterate and ENABLED FreshIterate, spelled out:
\* the loop has a row to take from a queue of its table, or a source row of
\* the table that is neither buffered nor done for the sampling to return
CanForce == pc = "force"

CanIterate == pc = "loop" /\ ~LoopEnds

CanFreshIterate ==
    /\ CanIterate
    /\ \/ required[Target] # <<>>
       \/ requested[Target] # <<>>
       \/ \E i \in 1..Len(SourceRows(args.fx, Target)) :
             ~RowExists(Cur, Target, RowPk(SourceRows(args.fx, Target)[i], Target))

\* create_subset_in runs on until it returns or raises, and a table that is
\* sampled for ever returns each of its rows again and again, a row not yet
\* admitted included.  The weak fairness of ForceRow, Iterate and
\* FreshIterate is written with the spelled-out ENABLED.
LiveSpec ==
    /\ Init /\ [][Next]_vars
    /\ WF_vars(Setup) /\ WF_vars(Finish)
    /\ ([]<>(~CanForce) \/ []<><<ForceRow>>_vars)
    /\ ([]<>(~CanIterate) \/ []<><<Iterate>>_vars)
    /\ ([]<>(~CanFreshIterate) \/ []<><<FreshIterate>>_vars)

(***************************************************************************)
(* Properties.  "Returned normally" is pc = "done"; the target database is *)
(* db; a table's foreign keys are its reflected ones and its configured    *)
(* constraints.                                                            *)
(***************************************************************************)
\* the rows of source table t, as a set
SourceSet(t) == {SourceRows(args.fx, t)[i] : i \in 1..Len(SourceRows(args.fx, t))}

\* no constrained column of the row holds a value
AllNull(row, fk) ==
    \A i \in 1..Len(fk.constrained_columns) : row[fk.constrained_columns[i]] = NULL

\* p is the parent of row along fk: equal on every column pair
IsParent(p, row, fk) ==
    \A i \in 1..Len(fk.constrained_columns) :
        p[fk.referred_columns[i]] = row[fk.constrained_columns[i]]

\* C1: after create_subset_in returns normally, every row of the target whose
\* table has a foreign key (reflected or configured) has its parent row, the
\* row of the referred table equal to it on all constrained columns, in the
\* target too, unless all its constrained columns are NULL.
C1_ParentsInTarget ==
    pc = "done" =>
        \A t \in AllKeys : \A row \in db[t] :
            \A i \in 1..Len(Edges(args, t)) :
                \/ AllNull(row, Edges(args, t)[i])
                \/ \E p \in db[Referred(Edges(args, t)[i])] :
                       IsParent(p, row, Edges(args, t)[i])

\* C2: a table of the model that full_tables matches ends the run with every
\* one of its source rows in the target, whatever its row count (one row
\* included): the scheduler does not stop before that.
C2_FullTablesComplete ==
    pc = "done" =>
        \A t \in AllKeys :
            (InSeq(t, tables) /\ IsFullTable(args, t)) => SourceSet(t) \subseteq db[t]

\* the pk tuples that were ever put in target.pending: with a buffer, line 418
\* puts every admitted row there; without one, nothing goes there
EverPending(t) == IF args.buffer = 0 THEN {} ELSE BagToSet(admitted[t])

\* C3: when create_subset_in returns, pending is empty for every table and
\* every pk tuple that was ever in pending is in done.
C3_FlushedAtReturn ==
    pc = "done" =>
        \A t \in AllKeys : DOMAIN pending[t] = {} /\ EverPending(t) \subseteq done[t]

\* the run returned with a buffer, and its last flush wrote buffered rows
C3_Witness ==
    /\ pc = "done"
    /\ args.buffer > 0
    /\ \E i \in DOMAIN log : log[i].ev = "insert"
    /\ \E t \in AllKeys : EverPending(t) # {}

\* C4: a pk tuple of a table is admitted at most once in a run: no pk tuple is
\* in pending and in done at once, and none has n_rows incremented twice or
\* is handed to an INSERT twice.
C4_AdmittedOnce ==
    \A t \in AllKeys :
        /\ DOMAIN pending[t] \cap done[t] = {}
        /\ \A pk \in BagToSet(admitted[t]) : CopiesIn(pk, admitted[t]) = 1
        /\ \A pk \in BagToSet(submitted[t]) : CopiesIn(pk, submitted[t]) = 1
        /\ pc # "start" =>
              n_rows[t] = Cardinality(db0[t]) + Cardinality(BagToSet(admitted[t]))

\* create_row_in was called again for a row that is still buffered
C4_Witness ==
    /\ args.buffer > 0
    /\ \E i \in DOMAIN log :
          /\ log[i].ev = "call"
          /\ log[i].row_exists
          /\ log[i].pk \in DOMAIN pending[log[i].table]

\* the source rows a set of <<table, row>> pairs refers to
ParentsOf(S) ==
    UNION { UNION { {<<Referred(Edges(args, x[1])[i]), p>> :
                        p \in {q \in SourceSet(Referred(Edges(args, x[1])[i])) :
                                  IsParent(q, x[2], Edges(args, x[1])[i])}} :
                    i \in 1..Len(Edges(args, x[1])) } : x \in S }

\* S and all its transitive parents
RECURSIVE WithParents(_)
WithParents(S) ==
    IF ParentsOf(S) \subseteq S THEN S ELSE WithParents(S \cup ParentsOf(S))

\* the rows of the source that entry i of force_rows names
ForcedRows(i) ==
    {<<args.force_rows[i][1], r>> :
        r \in {q \in SourceSet(args.force_rows[i][1]) :
                  q[Desc(args.fx, args.force_rows[i][1]).pk[1]] = args.force_rows[i][2]}}

AllForcedRows == UNION {ForcedRows(i) : i \in 1..Len(args.force_rows)}

\* C5: every force_rows entry whose pk is in the source is in the target at
\* normal termination, with all its transitive parents; the forced rows are
\* admitted with prioritized = true before the loop samples any row; an entry
\* whose pk is not in the source only logs a warning and the run goes on.
C5_ForcedRowsInTarget ==
    /\ pc = "done" => \A x \in WithParents(AllForcedRows) : x[2] \in db[x[1]]
    /\ (log # <<>> /\ log[1].ev = "next_row") =>
          /\ fi = Len(args.force_rows)
          /\ \A x \in AllForcedRows :
                RowPk(x[2], x[1]) \in BagToSet(admitted[x[1]])
    /\ (log # <<>> /\ log[1].ev = "call") => log[1].prioritized
    /\ (log # <<>> /\ log[1].ev = "warn") => pc \in {"force", "loop"}

\* the source rows that refer to a row of a set of <<table, row>> pairs
ChildrenOf(S) ==
    UNION { UNION { {<<<<child_fks[x[1]][i].constrained_schema,
                         child_fks[x[1]][i].constrained_table>>, c>> :
                        c \in {q \in SourceSet(<<child_fks[x[1]][i].constrained_schema,
                                                 child_fks[x[1]][i].constrained_table>>) :
                                  ChildWhere(child_fks[x[1]][i], x[2], q)}} :
                    i \in 1..Len(child_fks[x[1]]) } : x \in S }

\* the children of S, their children, and so on
RECURSIVE Descendants(_)
Descendants(S) ==
    IF ChildrenOf(S) \subseteq S THEN S ELSE Descendants(S \cup ChildrenOf(S))

\* C6: a prioritized admission appends every source child row of every child
\* edge, without the children limit, to the child's required queue, and at
\* normal termination all those child rows are in the target.
C6_PrioritizedChildren ==
    /\ \A i \in DOMAIN log :
          (log[i].ev = "enqueue" /\ log[i].prioritized) =>
              log[i].queue = "required" /\ log[i].n = log[i].matching
    /\ pc = "done" => \A x \in Descendants(AllForcedRows) : x[2] \in db[x[1]]

\* the number of rows the enqueue events of a step put in the queues of table k
RECURSIVE Enqueued(_, _)
Enqueued(lg, k) ==
    IF lg = <<>> THEN 0
    ELSE (IF Head(lg).ev = "enqueue" /\ Head(lg).table = k THEN Head(lg).n ELSE 0)
         + Enqueued(Tail(lg), k)

\* the step popped an entry of the requested queue of table k
PoppedRequested(lg, k) ==
    IF lg[1].from = "requested" /\ lg[1].table = k THEN 1 ELSE 0

\* C7: a non-prioritized admission of a new row appends, for each child edge,
\* at most `children` source child rows to the child's requested queue, and
\* nothing to any required queue.
C7_NonPrioritizedChildren ==
    /\ [](\A i \in DOMAIN log :
            (log[i].ev = "enqueue" /\ ~log[i].prioritized) =>
                log[i].queue = "requested" /\ log[i].n <= args.children)
    /\ [][(log' # <<>> /\ log'[1].ev = "next_row" /\ ~log'[1].prioritized) =>
             /\ required' = required
             /\ \A k \in AllKeys :
                   Len(requested'[k]) =
                       Len(requested[k]) - PoppedRequested(log', k) + Enqueued(log', k)]_vars

\* a new row was admitted non-prioritized and the limit cut its children
C7_Witness ==
    \E i \in DOMAIN log :
        /\ log[i].ev = "enqueue"
        /\ ~log[i].prioritized
        /\ log[i].n = args.children
        /\ log[i].matching > args.children
        /\ Len(requested[log[i].table]) > 0

\* the tables of the database the run reads
CatalogKeys == {Key(Catalog(args.fx)[i]) : i \in 1..Len(Catalog(args.fx))}

\* a glob of the list matches "schema.name" or "name" of table k
PatternHits(k, patterns) ==
    \E i \in 1..Len(patterns) :
        \/ Glob(QualName(k[1], k[2]), Chars(patterns[i]))
        \/ Glob(Chars(k[2]), Chars(patterns[i]))

\* C8: a table is in the model of a Db exactly when the include list is
\* empty or one of its patterns matches the table, and no exclude pattern
\* matches it; a pattern is a glob tried on "schema.name" and on "name".
C8_ModelMembership ==
    pc # "start" =>
        /\ \A i \in 1..Len(tables) : tables[i] \in CatalogKeys
        /\ \A k \in CatalogKeys :
              InSeq(k, tables) <=>
                  /\ args.tables = <<>> \/ PatternHits(k, args.tables)
                  /\ ~PatternHits(k, args.exclude_tables)

\* a Db built with both lists: one table is kept through its qualified name
\* only, another is dropped by an exclude pattern
C8_Witness ==
    /\ pc # "start"
    /\ args.tables # <<>>
    /\ \E i \in 1..Len(tables) :
          ~\E j \in 1..Len(args.tables) :
              Glob(Chars(tables[i][2]), Chars(args.tables[j]))
    /\ \E k \in CatalogKeys :
          PatternHits(k, args.tables) /\ PatternHits(k, args.exclude_tables)
              /\ ~InSeq(k, tables)

\* the table is excluded or not included
NotModelled(k) ==
    \/ PatternHits(k, args.exclude_tables)
    \/ (args.tables # <<>> /\ ~PatternHits(k, args.tables))

\* C9: a table that is not in the model (excluded or not included) never has
\* a row inserted in the target, and never a row in a required or requested
\* queue.
C9_NothingOutsideModel ==
    \A k \in CatalogKeys :
        NotModelled(k) =>
            /\ db[k] = {}
            /\ BagToSet(submitted[k]) = {}
            /\ BagToSet(admitted[k]) = {}
            /\ DOMAIN pending[k] = {}
            /\ done[k] = {}
            /\ required[k] = <<>>
            /\ requested[k] = <<>>

\* the run returned; a table outside the model has a source row whose parent
\* was copied to the target
C9_Witness ==
    /\ pc = "done"
    /\ \E k \in CatalogKeys :
          /\ NotModelled(k)
          /\ \E i \in 1..Len(Desc(args.fx, k).fks) :
                \E p \in db[Referred(Desc(args.fx, k).fks[i])] :
                    \E r \in SourceSet(k) : IsParent(p, r, Desc(args.fx, k).fks[i])

\* a table of the model has a foreign key to a table that is not in the model
HasDanglingFk ==
    \E i \in 1..Len(tables) :
        \E j \in 1..Len(Edges(args, tables[i])) :
            ~InSeq(Referred(Edges(args, tables[i])[j]), tables)

\* C10: if a table of the model has a foreign key whose referred table is not
\* in the model, the construction of the Db fails with an error before any
\* row is inserted.
C10_DanglingFkFails ==
    HasDanglingFk =>
        /\ pc = "error"
        /\ \A k \in AllKeys : db[k] = {} /\ BagToSet(submitted[k]) = {}
                                 /\ BagToSet(admitted[k]) = {}

\* the construction failed on such a foreign key
C10_Witness == pc = "error" /\ HasDanglingFk

\* the source row of table t with primary-key tuple pk
RowsByPk(t, pk) == {r \in SourceSet(t) : RowPk(r, t) = pk}

\* every foreign key of the row, reflected or configured, is all NULL, and
\* there is at least one
OnlyNullEdges(t, pk) ==
    /\ Edges(args, t) # <<>>
    /\ \A r \in RowsByPk(t, pk) :
          \A j \in 1..Len(Edges(args, t)) : AllNull(r, Edges(args, t)[j])

\* C11: admitting a row whose constrained columns of a foreign-key edge are
\* all NULL performs no lookup and no parent admission for that edge, and the
\* row itself is still admitted (also while the referred table of the target
\* is empty).
C11_NullEdgeSkipped ==
    /\ \A i \in DOMAIN log :
          log[i].ev = "lookup" =>
              \E r \in RowsByPk(log[i].table, log[i].pk) :
                  \E j \in 1..Len(Edges(args, log[i].table)) :
                      /\ Referred(Edges(args, log[i].table)[j]) = log[i].referred
                      /\ ~AllNull(r, Edges(args, log[i].table)[j])
    /\ \A i \in DOMAIN log :
          (log[i].ev = "call" /\ ~log[i].row_exists
              /\ OnlyNullEdges(log[i].table, log[i].pk)) =>
                  /\ log[i].pk \in BagToSet(admitted[log[i].table])
                  /\ i < Len(log)
                  /\ log[i + 1].ev \in {"insert", "row_added"}
                  /\ log[i + 1].table = log[i].table

\* a row with an all-NULL foreign key was admitted while the referred table
\* held no row, in the target or in its buffer
C11_Witness ==
    \E i \in DOMAIN log :
        /\ log[i].ev = "row_added"
        /\ OnlyNullEdges(log[i].table, log[i].pk)
        /\ \A j \in 1..Len(Edges(args, log[i].table)) :
              /\ db[Referred(Edges(args, log[i].table)[j])] = {}
              /\ DOMAIN pending[Referred(Edges(args, log[i].table)[j])] = {}

\* C12: from an empty target, with the same force list and the same sequence
\* of sampled rows, a run with buffer = 0 and a run with buffer > 0 end with
\* the same rows in every target table and the same n_rows per table (no
\* insert failing).
C12_BufferEquivalence ==
    (pc = "done" /\ args.buffer > 0 /\ plain.err = "none") =>
        \A k \in AllKeys : plain.db[k] = db[k] /\ plain.n_rows[k] = n_rows[k]

\* the primary-key tuples of the rows table t held when the run started
KeysAtStart(t) == {RowPk(r, t) : r \in db0[t]}

\* C13: a second run on the target a first run produced admits no row the
\* target already holds: no primary-key tuple already in a target table is
\* inserted again.
C13_SecondRunAddsNoDuplicate ==
    run = 2 =>
        \A i \in DOMAIN log :
            /\ log[i].ev = "row_added" => log[i].pk \notin KeysAtStart(log[i].table)
            /\ log[i].ev \in {"insert", "retry"} =>
                  log[i].pks \cap KeysAtStart(log[i].table) = {}

\* max(1, floor(n * fraction)), the fraction in quarters
MaxOneFloor(n, fraction4) ==
    IF (n * fraction4) \div 4 >= 1 THEN (n * fraction4) \div 4 ELSE 1

\* C14: assign_target gives a table that full_tables matches n_rows_desired =
\* n_rows and fetch_all = true; any other table gets, with linear sizing,
\* max(1, floor(n_rows * fraction)) if n_rows > 0 and 0 if n_rows = 0; so
\* fraction 1 gives n_rows and fraction 0 gives 1 for a non-empty table.
C14_RowsDesired ==
    (pc # "start" /\ ~HasDanglingFk) =>
        \A i \in 1..Len(tables) :
            IF PatternHits(tables[i], args.full_tables)
            THEN /\ fetch_all[tables[i]]
                 /\ n_rows_desired[tables[i]] = Len(SourceRows(args.fx, tables[i]))
            ELSE /\ ~fetch_all[tables[i]]
                 /\ n_rows_desired[tables[i]] =
                       (IF Len(SourceRows(args.fx, tables[i])) > 0
                        THEN MaxOneFloor(Len(SourceRows(args.fx, tables[i])),
                                         args.fraction4)
                        ELSE 0)
                 /\ args.fraction4 = 4 =>
                       n_rows_desired[tables[i]] = Len(SourceRows(args.fx, tables[i]))
                 /\ (args.fraction4 = 0 /\ SourceRows(args.fx, tables[i]) # <<>>) =>
                       n_rows_desired[tables[i]] = 1

\* targets were assigned with fraction 0: a table of two rows wants one row
C14_Witness ==
    /\ pc = "loop"
    /\ args.fraction4 = 0
    /\ \E i \in 1..Len(tables) :
          /\ n_rows_desired[tables[i]] = 1
          /\ Len(SourceRows(args.fx, tables[i])) = 2

\* the arguments as merge_config_args leaves them
Merged == merge_config_args(args)

\* C15: merge_config_args appends the config file's tables, schemas and
\* full_tables lists to args.tables, args.schema and args.full_tables, the
\* command-line values first, and the Dbs of the run are built from the
\* merged lists: a table is in the model exactly when the merged include
\* list is empty or matches it (and no exclude pattern does), and a table of
\* the model is fetched whole exactly when a merged full_tables pattern
\* matches it.
C15_ConfigListsMerged ==
    /\ \A i \in 1..Len(args.tables) : Merged.tables[i] = args.tables[i]
    /\ \A i \in 1..Len(args.config.tables) :
          Merged.tables[Len(args.tables) + i] = args.config.tables[i]
    /\ Len(Merged.tables) = Len(args.tables) + Len(args.config.tables)
    /\ Merged.schema = args.schema \o args.config.schemas
    /\ Merged.full_tables = args.full_tables \o args.config.full_tables
    /\ pc \notin {"start", "error"} =>
          /\ \A k \in CatalogKeys :
                InSeq(k, tables) <=>
                    /\ Merged.tables = <<>> \/ PatternHits(k, Merged.tables)
                    /\ ~PatternHits(k, args.exclude_tables)
          /\ \A i \in 1..Len(tables) :
                fetch_all[tables[i]] <=> PatternHits(tables[i], Merged.full_tables)
\* the positions of the row_added events of table k in a log
RowAddedAt(lg, k) == {i \in DOMAIN lg : lg[i].ev = "row_added" /\ lg[i].table = k}

\* event j reports the parent, along an edge of its table, of the row of event i
ParentEvent(lg, j, i) ==
    \E e \in 1..Len(Edges(args, lg[i].table)) :
        /\ Referred(Edges(args, lg[i].table)[e]) = lg[j].table
        /\ \E r \in RowsByPk(lg[i].table, lg[i].pk), p \in RowsByPk(lg[j].table, lg[j].pk) :
              /\ ~AllNull(r, Edges(args, lg[i].table)[e])
              /\ IsParent(p, r, Edges(args, lg[i].table)[e])

RECURSIVE FlushRows(_)
FlushRows(lg) ==
    IF lg = <<>> THEN 0
    ELSE (IF Head(lg).ev = "insert" THEN Cardinality(Head(lg).pks) ELSE 0)
             + FlushRows(Tail(lg))

\* the rows buffered in the tables of the target, as <<table, pk>> pairs
PendingRows == UNION {{<<k, pk>> : pk \in DOMAIN pending[k]} : k \in AllKeys}

\* the last step was an iteration of the loop that did not raise
AfterIteration == pc = "loop" /\ log # <<>> /\ log[1].ev = "next_row"

\* C17 as stated: when buffer > 0, the number of rows one flush submits,
\* counted over all tables, never exceeds buffer.
C17_FlushAtMostBuffer ==
    args.buffer > 0 => FlushRows(log) <= args.buffer

\* C17, amended: when buffer > 0, the number of rows left pending after a loop
\* iteration, counted over all tables, never exceeds buffer; a flush inside
\* the loop happens exactly when more than buffer rows are pending after the
\* admission, and submits all of them, more than buffer rows.
C17_PendingAtMostBuffer ==
    (AfterIteration /\ args.buffer > 0) =>
        /\ Cardinality(PendingRows) <= args.buffer
        /\ FlushRows(log) = 0 \/ FlushRows(log) > args.buffer
        /\ FlushRows(log) > 0 => PendingRows = {}

\* an iteration of a buffered run ended with a flush of more than buffer rows
C17_Witness ==
    AfterIteration /\ args.buffer > 0 /\ FlushRows(log) > args.buffer
\* the source rows of the referred table that row r references along edge e
ReferencedRows(r, e) == {p \in SourceSet(Referred(e)) : IsParent(p, r, e)}

\* event l of the log is the lookup of edge e for the row of the call c
LookupOf(lg, l, c, e) ==
    /\ lg[l].ev = "lookup" /\ lg[l].table = lg[c].table /\ lg[l].pk = lg[c].pk
    /\ lg[l].referred = Referred(e)

\* event i of the log is the row_added of the row of the call c
AddedOf(lg, i, c) ==
    lg[i].ev = "row_added" /\ lg[i].table = lg[c].table /\ lg[i].pk = lg[c].pk

\* row p of table k was in the target before the step, or was inserted by the
\* step before event l
InTargetAt(lg, l, k, p) ==
    \/ p \in db[k]
    \/ \E j \in 1..(l - 1) :
          lg[j].ev = "insert" /\ lg[j].table = k /\ RowPk(p, k) \in lg[j].pks
              /\ lg[j].rejected = {}

\* what the claim says of the admission c of row r for its configured edge e
ConstraintHandled(lg, c, r, e) ==
    \E l \in (c + 1)..Len(lg) : \E i \in (l + 1)..Len(lg) :
        /\ LookupOf(lg, l, c, e)
        /\ AddedOf(lg, i, c)
        /\ ReferencedRows(r, e) = {} =>
              \A j \in (l + 1)..(i - 1) : lg[j].ev = "insert" /\ lg[j].table = lg[c].table
        /\ \A p \in ReferencedRows(r, e) :
              InTargetAt(lg, l, Referred(e), p)
              \/ /\ lg[l + 1].ev = "call" /\ lg[l + 1].table = Referred(e)
                 /\ ~lg[l + 1].prioritized
                 /\ lg[l + 1].pk \in {RowPk(q, Referred(e)) : q \in ReferencedRows(r, e)}
                 /\ \/ lg[l + 1].row_exists
                    \/ \E j \in (l + 2)..(i - 1) : AddedOf(lg, j, l + 1) /\ ~lg[j].prioritized

\* C18: for a configured constraint edge with a non-NULL constrained value,
\* if no row of the source (nor of the target) is the referenced one, the
\* admission skips the edge without error and still admits the row; if the
\* referenced row is in the source and not in the target, it is admitted,
\* not prioritized, before the row.
C18_ConstraintEdge ==
    [][\A c \in DOMAIN log' :
          (log'[c].ev = "call" /\ ~log'[c].row_exists) =>
              \A e \in 1..Len(Constraints(args, log'[c].table)) :
              \A r \in RowsByPk(log'[c].table, log'[c].pk) :
                  ~AllNull(r, Constraints(args, log'[c].table)[e]) =>
                      /\ pc' # "error"
                      /\ ConstraintHandled(log', c, r, Constraints(args, log'[c].table)[e])]_vars

\* the step admitted Zeppo, whose home city is in no table: a lookup, no call
\* for a city, the row added; Harpo and the city it names are in the target
\* or buffered already
C18_Witness ==
    /\ args.fx = "zep"
    /\ \E c \in DOMAIN log :
          /\ log[c].ev = "call" /\ log[c].table = <<None, "zeppos">> /\ ~log[c].row_exists
          /\ \A r \in RowsByPk(log[c].table, log[c].pk) :
                ReferencedRows(r, Constraints(args, <<None, "zeppos">>)[1]) = {}
          /\ log[c + 1].ev = "lookup"
          /\ AddedOf(log, Len(log), c)
    /\ \E r \in db[<<None, "zeppos">>] \cup
                 {pending[<<None, "zeppos">>][k] : k \in DOMAIN pending[<<None, "zeppos">>]} :
          \E p \in ReferencedRows(r, Constraints(args, <<None, "zeppos">>)[1]) :
              RowPk(p, <<None, "city">>) \in
                  done[<<None, "city">>] \cup DOMAIN pending[<<None, "city">>]
\* every key has its row in table t of the target
Stored(t, keys) == \A k \in keys : \E r \in db[t] : RowPk(r, t) = k

\* the keys of table k that the retries of the log skipped
SkippedKeys(k) ==
    UNION {log[i].rejected : i \in {j \in DOMAIN log : log[j].ev = "retry" /\ log[j].table = k}}

\* C19: if the batch INSERT of a table fails during flush, flush tries every
\* pending row of that table on its own; a row that fails (one whose key the
\* target held already, or one whose parent an enforcing target misses) keeps
\* neither the other rows of the table nor the other tables from being
\* inserted, and the run goes on after the flush.
C19_FlushFallback ==
    \A b \in DOMAIN log :
        (log[b].ev = "insert" /\ log[b].rejected # {} /\ args.buffer > 0) =>
            /\ b < Len(log)
            /\ log[b + 1].ev = "retry" /\ log[b + 1].table = log[b].table
            /\ log[b + 1].pks = log[b].pks
            /\ \A x \in log[b + 1].rejected :
                  \/ x \in KeysAtStart(log[b].table)
                  \/ \A r \in RowsByPk(log[b].table, x) : Unparented(Cur, log[b].table, r)
            /\ Stored(log[b].table, log[b].pks \ log[b + 1].rejected)
            /\ \A k \in AllKeys : pending[k] = <<>> /\ Stored(k, done[k] \ SkippedKeys(k))
            /\ pc \in {"loop", "done"}

\* a flush in which the batch of one table failed, and then the batch of
\* another table failed with a row the target held and a new row, which the
\* retry stored; the loop goes on
C19_Witness ==
    \E b, c \in DOMAIN log :
        /\ log[b].ev = "insert" /\ log[b].rejected # {} /\ args.buffer > 0
        /\ c > b + 1 /\ log[c].ev = "retry" /\ log[c].table # log[b].table
        /\ log[c].rejected # {} /\ log[c].rejected # log[c].pks
        /\ Stored(log[c].table, log[c].pks)
        /\ pc = "loop"
\* the number of rows the enqueue events of a log put in queue q of table k
RECURSIVE EnqueuedIn(_, _, _)
EnqueuedIn(lg, k, q) ==
    IF lg = <<>> THEN 0
    ELSE (IF Head(lg).ev = "enqueue" /\ Head(lg).table = k /\ Head(lg).queue = q
          THEN Head(lg).n ELSE 0) + EnqueuedIn(Tail(lg), k, q)

\* 1 if the next_row of the log took its row from queue q of table k
PoppedFrom(lg, k, q) == IF lg[1].from = q /\ lg[1].table = k THEN 1 ELSE 0

\* what next_row of table t returns and does, said of one of its outcomes c
NextRowAsSpecified(t, c) ==
    /\ IF required[t] # <<>>
       THEN /\ c.from = "required" /\ c.row = Head(required[t])[1] /\ c.prioritized
            /\ Popped(Cur, t, c).required = [required EXCEPT ![t] = Tail(@)]
            /\ Popped(Cur, t, c).requested = requested
       ELSE IF requested[t] # <<>>
       THEN /\ c.from = "requested" /\ c.row = Head(requested[t])[1] /\ ~c.prioritized
            /\ Popped(Cur, t, c).requested = [requested EXCEPT ![t] = Tail(@)]
            /\ Popped(Cur, t, c).required = required
       ELSE /\ c.from = "sample" /\ c.row \in SourceSet(t) /\ ~c.prioritized
            /\ Popped(Cur, t, c).required = required
            /\ Popped(Cur, t, c).requested = requested
    /\ Popped(Cur, t, c).pending = pending
    /\ Popped(Cur, t, c).done = done
    /\ Popped(Cur, t, c).n_rows = n_rows

\* C20: next_row returns the head of required, flagged prioritized, if
\* required is non-empty, otherwise the head of requested, not prioritized,
\* otherwise a sampled source row, not prioritized; it removes exactly the
\* returned entry from its queue and leaves the other queue, pending, done
\* and n_rows as they are.  In the loop: the row admitted by an iteration is
\* the one so chosen, and while required is non-empty the requested queue
\* only grows.
C20_NextRowOrder ==
    /\ [](pc = "loop" =>
            \A i \in 1..Len(tables) : \A c \in NextRowChoices(tables[i]) :
                NextRowAsSpecified(tables[i], c))
    /\ [][(log' # <<>> /\ log'[1].ev = "next_row") =>
            /\ log'[1].from = (IF required[log'[1].table] # <<>> THEN "required"
                               ELSE IF requested[log'[1].table] # <<>> THEN "requested"
                               ELSE "sample")
            /\ log'[1].prioritized = (required[log'[1].table] # <<>>)
            /\ log'[2].ev = "call" /\ log'[2].table = log'[1].table
            /\ log'[2].prioritized = log'[1].prioritized
            /\ required[log'[1].table] # <<>> =>
                  log'[2].pk = RowPk(Head(required[log'[1].table])[1], log'[1].table)
            /\ (required[log'[1].table] = <<>> /\ requested[log'[1].table] # <<>>) =>
                  log'[2].pk = RowPk(Head(requested[log'[1].table])[1], log'[1].table)
            /\ \A k \in AllKeys :
                  /\ Len(required'[k]) = Len(required[k]) - PoppedFrom(log', k, "required")
                                            + EnqueuedIn(log', k, "required")
                  /\ Len(requested'[k]) = Len(requested[k]) - PoppedFrom(log', k, "requested")
                                             + EnqueuedIn(log', k, "requested")]_vars

\* the loop is about to call next_row of a table whose two queues both hold
\* rows
C20_Witness ==
    /\ pc = "loop" /\ ~LoopEnds
    /\ required[Target] # <<>> /\ requested[Target] # <<>>
\* the tables of the model whose source holds rows
WithRows == {tables[i] : i \in {j \in 1..Len(tables) : SourceNRows(args.fx, tables[j]) > 0}}

\* the last step emitted no row_added and submitted no INSERT
NothingAdmitted == \A i \in DOMAIN log : log[i].ev \notin {"row_added", "insert", "retry"}

\* C21: the table an iteration of the scheduler processes has a completeness
\* score that is minimal among the tables whose source has rows; a table
\* whose source has no row is never selected; if no table has rows the loop
\* ends without admitting a row.
C21_LeastCompleteFirst ==
    /\ [][(log' # <<>> /\ log'[1].ev = "next_row") =>
            /\ log'[1].table \in WithRows
            /\ \A k \in WithRows :
                  ~ScoreLess(completeness_score(k), completeness_score(log'[1].table))]_vars
    /\ [][(pc = "loop" /\ WithRows = {}) =>
            /\ pc' = "done"
            /\ n_rows' = n_rows /\ db' = db /\ admitted' = admitted
            /\ NothingAdmitted']_vars

\* the loop is about to process a table although a table without source
\* rows, earlier in the table order, scores lower
C21_Witness ==
    /\ pc = "loop" /\ ~LoopEnds
    /\ \E i, j \in 1..Len(tables) :
          /\ tables[j] = Target /\ i < j
          /\ SourceNRows(args.fx, tables[i]) = 0
          /\ ScoreLess(completeness_score(tables[i]), completeness_score(Target))
\* some table whose source has rows scores at most 0.97
SomeTableWanting == \E k \in WithRows : ~AboveThreshold(completeness_score(k))

\* C22: the scheduler loop stops as soon as the least complete table scores
\* above 0.97: it goes on while a table whose source has rows scores at most
\* 0.97 and stops otherwise; when it has stopped, every table whose source
\* has rows has an empty required queue.
C22_StopsWhenComplete ==
    /\ [][(pc = "loop" /\ pc' = "done") => ~SomeTableWanting]_vars
    /\ [][(pc = "loop" /\ log' # <<>> /\ log'[1].ev = "next_row") => SomeTableWanting]_vars
    /\ [](pc = "done" => \A k \in WithRows : required[k] = <<>>)
Max(x, y) == IF x >= y THEN x ELSE y

\* two scores, as fractions of millionths, are the same number
ScoreEq(x, y) == x.num * y.den = y.num * x.den

\* the score the claim gives for table k
ScoreAsClaimed(k) ==
    IF fetch_all[k] /\ n_rows[k] < n_rows_desired[k]
    THEN [num |-> (1 + Max(n_rows[k], 1) - Max(n_rows_desired[k], 1)) * 1000000, den |-> 1]
    ELSE [num |-> (IF required[k] = <<>>
                   THEN Pow033(n_rows[k], Max(n_rows_desired[k], 1)) * Max(n_rows[k], 1)
                   ELSE 0)
                  - Len(requested[k]) * 1000000
                  - Len(required[k]) * 1000000 * Max(n_rows[k], 1),
          den |-> Max(n_rows[k], 1)]

\* C23: completeness_score is 1 + max(n_rows, 1) - max(n_rows_desired, 1) for
\* a fetch_all table with n_rows < n_rows_desired, and otherwise
\* -(|requested| / max(n_rows, 1)) - |required|, plus
\* (n_rows / max(n_rows_desired, 1)) ^ 0.33 only when required is empty; so
\* a table with a non-empty required queue scores at most -|required|, and a
\* fetch_all table that has not reached n_rows_desired scores below 0.97.
C23_ScoreFormula ==
    pc \in {"force", "loop", "done"} =>
        \A i \in 1..Len(tables) :
            /\ ScoreEq(completeness_score(tables[i]), ScoreAsClaimed(tables[i]))
            /\ required[tables[i]] # <<>> =>
                  ~ScoreLess([num |-> 0 - Len(required[tables[i]]), den |-> 1],
                             completeness_score(tables[i]))
            /\ (fetch_all[tables[i]] /\ n_rows[tables[i]] < n_rows_desired[tables[i]]) =>
                  ScoreLess(completeness_score(tables[i]), [num |-> 97, den |-> 100])
\* event i of the log is the work of a create_row_in call on row pk of table
\* t: a parent lookup, an INSERT of the row alone, its row_added or the
\* enqueueing of its children
WorkOf(lg, i, t, pk) ==
    \/ lg[i].ev = "lookup" /\ lg[i].table = t /\ lg[i].pk = pk
    \/ lg[i].ev = "row_added" /\ lg[i].table = t /\ lg[i].pk = pk
    \/ lg[i].ev = "insert" /\ lg[i].table = t /\ lg[i].pks = {pk} /\ args.buffer = 0
    \/ lg[i].ev = "enqueue" /\ lg[i].parent = t /\ lg[i].parent_pk = pk

\* a queue without its first entry, if the step took its row from it
AfterPop(q, lg, k, name) ==
    IF lg[1].ev = "next_row" /\ lg[1].table = k /\ lg[1].from = name
    THEN Tail(q[k]) ELSE q[k]

\* C24: a non-prioritized create_row_in call on a row whose primary-key tuple
\* is in pending or done changes nothing: n_rows, pending, done, required and
\* requested of every table stay as they are, no insert is submitted, no
\* parent is looked up or admitted, no child is enqueued, no row_added is
\* sent.  (The iteration that makes the call has popped the row from its
\* queue, and may flush afterwards.)
C24_ExistingRowUntouched ==
    /\ [](\A c \in DOMAIN log :
            (log[c].ev = "call" /\ log[c].row_exists /\ ~log[c].prioritized) =>
                /\ log[c].pk \in done[log[c].table] \cup DOMAIN pending[log[c].table]
                /\ c < Len(log) => ~WorkOf(log, c + 1, log[c].table, log[c].pk))
    /\ [][(/\ log' # <<>> /\ log'[1].ev = "next_row"
           /\ log'[2].row_exists /\ ~log'[2].prioritized) =>
            /\ \A i \in 3..Len(log') : log'[i].ev \in {"insert", "retry"}
            /\ n_rows' = n_rows /\ admitted' = admitted
            /\ \A k \in AllKeys :
                  /\ required'[k] = AfterPop(required, log', k, "required")
                  /\ requested'[k] = AfterPop(requested, log', k, "requested")
                  /\ done'[k] \cup DOMAIN pending'[k] = done[k] \cup DOMAIN pending[k]
            /\ Len(log') = 2 =>
                  pending' = pending /\ done' = done /\ db' = db
                      /\ submitted' = submitted]_vars

\* the loop popped a requested row that was admitted before, and the call
\* did nothing
C24_Witness ==
    /\ Len(log) = 2 /\ log[1].ev = "next_row" /\ log[1].from = "requested"
    /\ log[2].ev = "call" /\ log[2].row_exists /\ ~log[2].prioritized
    /\ log[2].pk \in BagToSet(admitted[log[2].table])
\* the source rows of table k that reference row r of table t along edge i
\* of t's child_fks, if that edge is one of k
ChildRowsAlong(t, r, i, k) ==
    IF <<child_fks[t][i].constrained_schema, child_fks[t][i].constrained_table>> = k
    THEN {x \in SourceSet(k) : IsParent(r, x, child_fks[t][i])}
    ELSE {}

\* the number of rows the child edges of t find in k for row r
RECURSIVE ChildCount(_, _, _, _)
ChildCount(t, r, i, k) ==
    IF i = 0 THEN 0
    ELSE Cardinality(ChildRowsAlong(t, r, i, k)) + ChildCount(t, r, i - 1, k)

\* the position of the call of a step: 1 in the force loop, 2 after next_row
TopCall(lg) == IF lg[1].ev = "next_row" THEN 2 ELSE 1

\* C25: a prioritized create_row_in call on a row whose primary-key tuple is
\* in pending or done does not insert the row again, does not change n_rows,
\* pending or done, admits no parent and sends no event, but appends every
\* child row of each child foreign-key edge to the required queue of the
\* child table.
C25_ExistingRowPrioritized ==
    [][(/\ log' # <<>> /\ log'[TopCall(log')].ev = "call"
        /\ log'[TopCall(log')].row_exists /\ log'[TopCall(log')].prioritized) =>
         \E c \in {TopCall(log')} : \E t \in {log'[c].table} : \E r \in RowsByPk(t, log'[c].pk) :
            /\ n_rows' = n_rows /\ admitted' = admitted
            /\ requested' = [k \in AllKeys |-> AfterPop(requested, log', k, "requested")]
            /\ \A k \in AllKeys :
                  done'[k] \cup DOMAIN pending'[k] = done[k] \cup DOMAIN pending[k]
            /\ Len(log') >= c + Len(child_fks[t])
            /\ \A i \in 1..Len(child_fks[t]) :
                  /\ log'[c + i].ev = "enqueue" /\ log'[c + i].queue = "required"
                  /\ log'[c + i].parent = t /\ log'[c + i].parent_pk = log'[c].pk
                  /\ log'[c + i].n = log'[c + i].matching
                  /\ log'[c + i].n =
                        Cardinality(ChildRowsAlong(t, r, i, log'[c + i].table))
            /\ \A i \in (c + Len(child_fks[t]) + 1)..Len(log') :
                  log'[i].ev \in {"insert", "retry"} /\ args.buffer > 0
            /\ \A k \in AllKeys :
                  \E old \in {AfterPop(required, log', k, "required")} :
                      /\ Len(required'[k]) = Len(old) + ChildCount(t, r, Len(child_fks[t]), k)
                      /\ SubSeq(required'[k], 1, Len(old)) = old
                      /\ \A j \in (Len(old) + 1)..Len(required'[k]) :
                            /\ required'[k][j][2]
                            /\ \E i \in 1..Len(child_fks[t]) :
                                  required'[k][j][1] \in ChildRowsAlong(t, r, i, k)
                      /\ \A i \in 1..Len(child_fks[t]) : \A x \in ChildRowsAlong(t, r, i, k) :
                            \E j \in (Len(old) + 1)..Len(required'[k]) :
                                required'[k][j][1] = x]_vars

\* the loop popped from required a row that a forced admission had handled
\* already, and the call appended its child once more
C25_Witness ==
    /\ log # <<>> /\ log[1].ev = "next_row" /\ log[1].from = "required"
    /\ log[2].ev = "call" /\ log[2].row_exists /\ log[2].prioritized
    /\ \E i \in 3..Len(log) : log[i].ev = "enqueue" /\ log[i].n > 0
                                 /\ Len(required[log[i].table]) >= log[i].n
\* the source rows reachable from the forced rows by child edges, one edge or
\* more
ForcedDescendants == Descendants(ChildrenOf(AllForcedRows))

\* C26: prioritization reaches all descendants: every entry of a required
\* queue is flagged prioritized and is admitted prioritized when popped, so
\* that its own children go to required without limit; at normal termination
\* every source row reachable from a forced row along child foreign-key edges
\* is in the target.
C26_PrioritizedDescendants ==
    /\ [](\A k \in AllKeys : \A j \in 1..Len(required[k]) : required[k][j][2])
    /\ [][(log' # <<>> /\ log'[1].ev = "next_row" /\ log'[1].from = "required") =>
            /\ log'[2].ev = "call" /\ log'[2].prioritized
            /\ \A i \in 3..Len(log') :
                  (log'[i].ev = "enqueue" /\ log'[i].parent = log'[2].table
                      /\ log'[i].parent_pk = log'[2].pk) =>
                      log'[i].queue = "required" /\ log'[i].n = log'[i].matching]_vars
    /\ [](pc = "done" => \A x \in ForcedDescendants : x[2] \in db[x[1]])

\* the enqueue events of lg that put at least one row on queue q of table k
EnqueuesOn(lg, k, q) ==
    {i \in 1..Len(lg) : lg[i].ev = "enqueue" /\ lg[i].table = k
                            /\ lg[i].queue = q /\ lg[i].n > 0}

\* the rows a non-prioritized admission of row r of table t may get from
\* child table k: the first args.children matching rows of one edge, in the
\* order of a scan of k
ChildResults(t, r, k) ==
    {Limit(SelectSeq(Scan(SourceRows(args.fx, k), off),
                     LAMBDA x : x \in ChildRowsAlong(t, r, i, k)), args.children) :
        i \in 1..Len(child_fks[t]), off \in ScanOffsets}

\* C27: in a non-prioritized admission that finds k >= 1 child rows on a
\* child foreign-key edge, the first child row becomes the new head of the
\* child table's requested deque, the remaining k-1 are appended at the tail
\* in result order, and the entries already in the deque keep their relative
\* order. Stated for the steps in which one edge only finds rows of the child
\* table.
C27_FirstChildAtHead ==
    [][log' # <<>> =>
        \A k \in AllKeys : \A e \in EnqueuesOn(log', k, "requested") :
            EnqueuesOn(log', k, "requested") = {e} =>
              \E old \in {AfterPop(requested, log', k, "requested")} :
              \E new \in {requested'[k]} :
              \E n \in {log'[e].n} :
                /\ ~log'[e].prioritized
                /\ Len(new) = Len(old) + n
                /\ SubSeq(new, 2, Len(old) + 1) = old
                /\ \A j \in {1} \cup (Len(old) + 2)..Len(new) : ~new[j][2]
                /\ \E r \in RowsByPk(log'[e].parent, log'[e].parent_pk) :
                      [j \in 1..n |-> IF j = 1 THEN new[1][1]
                                      ELSE new[Len(old) + j][1]]
                          \in ChildResults(log'[e].parent, r, k)]_vars

\* an admission found two child rows while the child's requested deque held
\* an entry: the first is the new head, the old entry follows, the second is
\* the tail
C27_Witness ==
    /\ log # <<>>
    /\ \E k \in AllKeys : \E e \in EnqueuesOn(log, k, "requested") :
          /\ EnqueuesOn(log, k, "requested") = {e}
          /\ log[e].n = 2 /\ Len(requested[k]) >= 3
          /\ requested[k][1][1] # requested[k][2][1]
          /\ requested[k][2][1] # requested[k][Len(requested[k])][1]

\* parent row p equals row on every pair of fk whose value in row is not NULL
AgreesNonNull(p, row, fk) ==
    \A i \in 1..Len(fk.constrained_columns) :
        row[fk.constrained_columns[i]] # NULL =>
            p[fk.referred_columns[i]] = row[fk.constrained_columns[i]]

\* the rows of table k that a target with rows d and buffer pnd holds
InTarget(d, pnd, k) == d[k] \cup {pnd[k][x] : x \in DOMAIN pnd[k]}

\* C28: the parent lookup of create_row_in for a foreign-key edge filters on
\* every (referred column, constrained column) pair whose value in the child
\* row is non-NULL and imposes no condition for a pair whose child value is
\* NULL; so for a composite foreign key the parent row that is found in, or
\* admitted to, the target agrees with the child row on all of its non-NULL
\* constrained columns.
C28_LookupAllColumns ==
    [][\A i \in 1..Len(log') : log'[i].ev = "lookup" =>
          \A r \in RowsByPk(log'[i].table, log'[i].pk) :
          \A e \in 1..Len(Desc(args.fx, log'[i].table).fks) :
          \E fk \in {Desc(args.fx, log'[i].table).fks[e]} :
             Referred(fk) = log'[i].referred =>
                IF i < Len(log') /\ log'[i + 1].ev = "call"
                     /\ log'[i + 1].table = log'[i].referred
                THEN \A p \in RowsByPk(log'[i].referred, log'[i + 1].pk) :
                        AgreesNonNull(p, r, fk)
                ELSE pc' # "error" =>
                        \E p \in InTarget(db', pending', log'[i].referred) :
                            AgreesNonNull(p, r, fk)]_vars

\* the row_added events of lg for the row with key pk of table k
RowAddedFor(lg, k, pk) == {i \in RowAddedAt(lg, k) : lg[i].pk = pk}

FlushRan(lg, p) ==
    args.buffer > 0 /\ (p = "done" \/ \E i \in DOMAIN lg : lg[i].ev = "insert")

\* the keys in pending[k] when the flush of the step began: those of before
\* the step and those of the rows the step admitted
PendingAtFlush(lg, k) ==
    DOMAIN pending[k] \cup {lg[i].pk : i \in RowAddedAt(lg, k)}

\* the INSERT statements of lg on table k, retries included
InsertsOn(lg, k) ==
    {i \in DOMAIN lg : lg[i].ev \in {"insert", "retry"} /\ lg[i].table = k}

\* C30: flush leaves every table with an empty pending map and done equal to
\* its previous done united with the keys of its previous pending; it submits
\* no insert for a table whose pending is empty and does not change n_rows,
\* n_rows_desired, required or requested of any table.
C30_FlushEffect ==
    [][(pc = "loop" /\ FlushRan(log', pc')) =>
          /\ \A k \in AllKeys :
                /\ pending'[k] = <<>>
                /\ done'[k] = done[k] \cup PendingAtFlush(log', k)
                /\ PendingAtFlush(log', k) = {} => InsertsOn(log', k) = {}
                /\ PendingAtFlush(log', k) # {} =>
                      \E i \in InsertsOn(log', k) :
                          log'[i].ev = "insert" /\ log'[i].pks = PendingAtFlush(log', k)
                /\ n_rows'[k] = n_rows[k] + Cardinality(RowAddedAt(log', k))
          /\ n_rows_desired' = n_rows_desired
          /\ pc' = "done" =>
                n_rows' = n_rows /\ required' = required /\ requested' = requested]_vars

\* the flush at the end of create_subset_in wrote the buffered rows of one
\* table and passed over a table that had rows in done and none in pending
C30_Witness ==
    /\ pc = "done" /\ args.buffer > 0
    /\ \E k \in AllKeys : InsertsOn(log, k) # {} /\ pending[k] = <<>>
    /\ \E k \in AllKeys : InsertsOn(log, k) = {} /\ done[k] # {}

\* C31: with buffer = 0, pending is empty for every table in every reachable
\* state, each newly admitted row is inserted into the target immediately and
\* its primary-key tuple is in done when create_row_in returns, and flush is
\* never called: the only INSERT statements are those of insert_one, one row
\* each, right before the row_added signal of that row.
C31_Unbuffered ==
    /\ [](args.buffer = 0 => \A k \in AllKeys : pending[k] = <<>>)
    /\ [][args.buffer = 0 =>
            \A i \in DOMAIN log' :
               /\ log'[i].ev # "retry"
               /\ log'[i].ev = "row_added" =>
                     /\ i > 1 /\ log'[i - 1].ev = "insert"
                     /\ log'[i - 1].table = log'[i].table
                     /\ log'[i - 1].pks = {log'[i].pk} /\ log'[i - 1].rejected = {}
                     /\ log'[i].pk \in done'[log'[i].table]
                     /\ \E r \in db'[log'[i].table] :
                           RowPk(r, log'[i].table) = log'[i].pk
               /\ log'[i].ev = "insert" =>
                     /\ Cardinality(log'[i].pks) = 1
                     /\ IF log'[i].rejected = {}
                        THEN /\ i < Len(log') /\ log'[i + 1].ev = "row_added"
                             /\ log'[i + 1].table = log'[i].table
                             /\ {log'[i + 1].pk} = log'[i].pks
                        ELSE i = Len(log') /\ pc' = "error"]_vars

\* a step of a run without buffer admitted a row and its parent: both were
\* inserted at once and are in done
C31_Witness ==
    /\ args.buffer = 0 /\ pc = "loop"
    /\ \E i, j \in DOMAIN log :
          /\ i < j /\ log[i].ev = "row_added" /\ log[j].ev = "row_added"
          /\ log[i].table # log[j].table
          /\ log[i].pk \in done[log[i].table] /\ log[j].pk \in done[log[j].table]

\* the edges in child_fks of table k
ChildFkSet(k) == {child_fks[k][i] : i \in 1..Len(child_fks[k])}

\* C32: after model construction, for every table T in the model and every
\* edge of T's foreign keys and configured constraints, the child_fks of the
\* referred table contains a mirror edge whose constrained (schema, table) is
\* T and whose column lists are those of the edge, and every child_fks entry
\* is the mirror of an edge of the table it names; this holds also when a
\* constraint list is configured under an unqualified name that matches
\* tables in two schemas.
C32_MirrorEdges ==
    pc \in {"force", "loop", "done"} =>
        /\ \A i \in 1..Len(tables) : \A e \in 1..Len(Edges(args, tables[i])) :
              Mirror(Edges(args, tables[i])[e], tables[i])
                  \in ChildFkSet(Referred(Edges(args, tables[i])[e]))
        /\ \A k \in AllKeys : \A m \in ChildFkSet(k) :
              /\ Referred(m) = k
              /\ InSeq(<<m.constrained_schema, m.constrained_table>>, tables)
              /\ \E e \in 1..Len(Edges(args, <<m.constrained_schema, m.constrained_table>>)) :
                    Mirror(Edges(args, <<m.constrained_schema, m.constrained_table>>)[e],
                           <<m.constrained_schema, m.constrained_table>>) = m

\* the tables that the edges of the tables S refer to
ReferredBy(S) ==
    UNION {{Referred(Edges(args, k)[e]) : e \in 1..Len(Edges(args, k))} : k \in S}

RECURSIVE TableClosure(_)
TableClosure(S) ==
    IF ReferredBy(S) \subseteq S THEN S ELSE TableClosure(S \cup ReferredBy(S))

\* the foreign-key graph of the model has a cycle
CyclicSchema ==
    \E i \in 1..Len(tables) : tables[i] \in TableClosure(ReferredBy({tables[i]}))

\* the rows <<table, row>> that the parent lookups of row r of table k select
\* in the source and that the target neither stores nor buffers
AbsentParents(k, r) ==
    UNION {{<<Referred(Edges(args, k)[e]), p>> :
               p \in {q \in SourceSet(Referred(Edges(args, k)[e])) :
                         /\ FirstNonNull(Edges(args, k)[e], r) # 0
                         /\ ParentWhere(Edges(args, k)[e], r, q)
                         /\ q \notin db[Referred(Edges(args, k)[e])]
                         /\ RowPk(q, Referred(Edges(args, k)[e])) \notin
                               done[Referred(Edges(args, k)[e])]
                                  \cup DOMAIN pending[Referred(Edges(args, k)[e])]}} :
           e \in 1..Len(Edges(args, k))}

AbsentParentsOf(S) == UNION {AbsentParents(x[1], x[2]) : x \in S}

RECURSIVE RowClosure(_)
RowClosure(S) ==
    IF AbsentParentsOf(S) \subseteq S THEN S ELSE RowClosure(S \cup AbsentParentsOf(S))

\* a chain of absent parents leads from row x to a row that is its own ancestor
LeadsToCycle(x) ==
    \E y \in RowClosure({x}) : y \in RowClosure(AbsentParentsOf({y}))

\* the last step ended in the unbounded recursion
Diverged(lg, p) == p = "error" /\ lg # <<>> /\ lg[Len(lg)].ev = "recursion"

\* C33, as claimed: the engine performs no cycle detection: on a schema whose
\* foreign-key graph contains a cycle (including a table that references
\* itself), the admission procedure create_row_in does not terminate.
C33_CyclicSchemaDiverges ==
    [][(/\ CyclicSchema /\ log' # <<>> /\ log'[TopCall(log')].ev = "call"
        /\ ~log'[TopCall(log')].row_exists) => Diverged(log', pc')]_vars

\* C33, amended: create_row_in, called on a row that is not in the target,
\* never returns if a chain of parent references through rows absent from
\* the target leads from the row to a row that is its own ancestor, and it
\* returns if there is no such chain, on a cyclic schema too.
C33_CyclicRowsDiverge ==
    [][(/\ log' # <<>> /\ log'[TopCall(log')].ev = "call"
        /\ ~log'[TopCall(log')].row_exists) =>
          \A r \in RowsByPk(log'[TopCall(log')].table, log'[TopCall(log')].pk) :
             Diverged(log', pc') <=> LeadsToCycle(<<log'[TopCall(log')].table, r>>)]_vars

\* on the table that references itself, a run that had admitted a city
\* stopped in the admission of Hibbing: its parent Duluth names Superior,
\* which names Duluth
C33_Witness ==
    /\ CyclicSchema /\ Diverged(log, pc)
    /\ log[TopCall(log)].ev = "call" /\ log[TopCall(log)].pk = <<"Hibbing">>
    /\ log[Len(log)].pk = <<"Duluth">>
    /\ n_rows[<<None, "city">>] >= 1

\* the rows <<table, row>> that row r of table k references: those equal to
\* it on the non-NULL columns of an edge that is not all NULL
ParentRowsOf(k, r) ==
    UNION {{<<Referred(Edges(args, k)[e]), p>> :
               p \in {q \in SourceSet(Referred(Edges(args, k)[e])) :
                         /\ ~AllNull(r, Edges(args, k)[e])
                         /\ AgreesNonNull(q, r, Edges(args, k)[e])}} :
           e \in 1..Len(Edges(args, k))}

ParentRowsOfAll(S) == UNION {ParentRowsOf(x[1], x[2]) : x \in S}

RECURSIVE AncestorRows(_)
AncestorRows(S) ==
    IF ParentRowsOfAll(S) \subseteq S THEN S ELSE AncestorRows(S \cup ParentRowsOfAll(S))

\* no source row is its own ancestor
NoRowCycle ==
    \A k \in AllKeys : \A r \in SourceSet(k) :
        <<k, r>> \notin AncestorRows(ParentRowsOf(k, r))

RECURSIVE MaxOf(_)
MaxOf(S) ==
    IF S = {} THEN 0
    ELSE LET x == CHOOSE y \in S : TRUE IN Max(x, MaxOf(S \ {x}))

\* the number of rows of the longest chain of parent rows that starts at x
RECURSIVE ChainLength(_)
ChainLength(x) == 1 + MaxOf({ChainLength(p) : p \in ParentRowsOf(x[1], x[2])})

\* C34: given an initially empty target, exact source row counts, unique key
\* tuples in every source table, no cycle among source rows along parent
\* references, no insert failure, and fair sampling (every source row of a
\* table is returned again and again if the table is sampled forever),
\* create_subset_in eventually terminates; every single create_row_in call
\* terminates with recursion depth at most the length of the longest chain
\* of parent rows.
C34_Terminates ==
    /\ NoRowCycle => <>(pc \in {"done", "error"})
    /\ []((run = 1 /\ NoRowCycle) =>
            \A i \in DOMAIN log : log[i].ev = "call" =>
               /\ log[Len(log)].ev # "recursion"
               /\ \A r \in RowsByPk(log[TopCall(log)].table, log[TopCall(log)].pk) :
                     log[i].depth <= ChainLength(<<log[TopCall(log)].table, r>>))

\* a first run returned after an admission that went three calls deep: a
\* landmark, its city, the state of the city
C34_Witness ==
    /\ run = 1 /\ NoRowCycle /\ pc = "done"
    /\ \E k \in AllKeys : n_rows[k] >= 2
    /\ \E k \in AllKeys : \E x \in db[k] : ChainLength(<<k, x>>) = 3


(***************************************************************************)
(* C35                                                                     *)
(***************************************************************************)
\* C35: in every reachable state every primary-key tuple in the done set of a
\* target table is the key of a row that the target database stores, also
\* after a flush whose batch insert failed and whose row-by-row retry skipped
\* rows.
C35_DoneIsStored ==
    \A k \in AllKeys : Stored(k, done[k])


(***************************************************************************)
(* C36                                                                     *)
(***************************************************************************)
\* C36: between admissions (the run is in its force loop, in its main loop
\* or has returned), for every target table n_rows minus the n_rows that
\* assign_target counted is the number of keys in pending plus the number of
\* keys in done; and within a run no step lowers n_rows or takes a key out
\* of done.
C36_RowsAccounted ==
    /\ [](pc \in {"force", "loop", "done"} =>
            \A k \in AllKeys :
               n_rows[k] - Cardinality(db0[k]) =
                  Cardinality(DOMAIN pending[k]) + Cardinality(done[k]))
    /\ [][run' = run =>
            \A k \in AllKeys : n_rows'[k] >= n_rows[k] /\ done[k] \subseteq done'[k]]_vars

\* a second run on a target that held rows of the table: the table has keys
\* in done, written by a flush of this run, and keys in pending
C36_Witness ==
    /\ run > 1
    /\ pc = "loop"
    /\ \E k \in AllKeys :
          /\ db0[k] # {}
          /\ done[k] # {}
          /\ DOMAIN pending[k] # {}


(***************************************************************************)
(* C37                                                                     *)
(***************************************************************************)
\* the keys whose rows INSERT i of lg stored
InsertedBy(lg, i) == lg[i].pks \ lg[i].rejected

\* row p of table k was in the target database d before the step, or one of
\* the first i INSERTs of lg stored it
ThereBy(d, lg, i, k, p) ==
    \/ p \in d[k]
    \/ \E j \in InsertsOn(lg, k) : j <= i /\ RowPk(p, k) \in InsertedBy(lg, j)

\* no constrained column of the row is NULL
NoneNull(row, fk) ==
    \A i \in 1..Len(fk.constrained_columns) : row[fk.constrained_columns[i]] # NULL

\* C37: parents reach the target database before their children: whenever a
\* row is physically inserted (at once with buffer = 0, or in a flush, which
\* goes through the tables in the order of the model), every parent row it
\* refers to by a reflected foreign key without a NULL is in the target
\* database already or was inserted earlier in the same flush; within one
\* schema, across schemas, and in a table that refers to itself.
C37_ParentsFirst ==
    [][\A i \in DOMAIN log' :
          log'[i].ev \in {"insert", "retry"} =>
             \A x \in InsertedBy(log', i) :
                \A r \in RowsByPk(log'[i].table, x) :
                   \A e \in 1..Len(Desc(args.fx, log'[i].table).fks) :
                      \E fk \in {Desc(args.fx, log'[i].table).fks[e]} :
                         NoneNull(r, fk) =>
                            \E p \in SourceSet(Referred(fk)) :
                               /\ IsParent(p, r, fk)
                               /\ ThereBy(db, log', i, Referred(fk), p)]_vars

====
